---------------------------- MODULE Spec2Model ----------------------------
(***************************************************************************)
(* A model of the position and profit/loss getters of augur-sdk            *)
(* (packages/augur-sdk/src/state/getter/Users.ts).                         *)
(*                                                                         *)
(* Numbers.  The getters compute with bignumber.js values and exchange     *)
(* them as decimal strings.  A BigNumber is modelled as an exact rational  *)
(* <<n, d>> in lowest terms with d > 0; the three non-finite values are    *)
(* NaN = <<0,0>>, Infinity = <<1,0>> and -Infinity = <<-1,0>>.  A string   *)
(* is a sequence of one-character strings, so that formatting and parsing  *)
(* are computed and not assumed.  Model integers are 32 bits wide: the     *)
(* fixed-point scale 10^18 of the chain is carried by QUINTILLION at a     *)
(* reduced magnitude, and the inputs are drawn from sets whose quotients   *)
(* terminate as decimals (bignumber.js rounds a quotient to 20 decimal     *)
(* places, which no value of the model reaches).  bignumber.js keeps a     *)
(* sign on zero; the model has one zero, which prints as "0" as both       *)
(* zeros of bignumber.js do under toFixed and toString.                    *)
(***************************************************************************)
EXTENDS Integers, Sequences, FiniteSets, TLC

VARIABLES
    op,           \* the entry point this behaviour exercises
    bucketArgs,   \* bucketRangeByInterval: [startTime, endTime, periodInterval]
    bucketRet,    \* bucketRangeByInterval: [status, buckets, error]
    posArgs,      \* getTradingPositionFromProfitLossFrame: its seven arguments
    posRet,       \* getTradingPositionFromProfitLossFrame: Null, or the position
    tradingPositions,   \* sumTradingPositions: the list it is called with
    summedTrade,        \* sumTradingPositions: Null, or the record it returned
    ordersMarket,       \* getUserOpenOrders: the market whose orders are processed
    userSharesBalances, \* getUserOpenOrders: outcome -> balance, shared by the orders
    ordersTotalCost,    \* getUserOpenOrders: totalCost, the tokens escrowed so far
    escrowLog,          \* per processed order: the order as left by the estimator,
                        \* its outcome and type, the balances before and after
    plArgs,             \* getProfitLoss: params, the store's logs, the chain's clock
    plRet,              \* getProfitLoss: Null, or what the call returned or threw
    plTradingPositions, \* getProfitLoss: per bucket, tradingPositionsByMarketAndOutcome
    callArgs,           \* the other functions and getters: the arguments of the call
    callRet             \* the other functions and getters: Null, or the outcome

varsBucket == <<bucketArgs, bucketRet>>
varsPosition == <<posArgs, posRet>>
varsSum == <<tradingPositions, summedTrade>>
varsEscrow == <<ordersMarket, userSharesBalances, ordersTotalCost, escrowLog>>
varsProfitLoss == <<plArgs, plRet, plTradingPositions>>
varsCall == <<callArgs, callRet>>
vars == <<op, varsBucket, varsPosition, varsSum, varsEscrow, varsProfitLoss, varsCall>>

-----------------------------------------------------------------------------
(* Bounds of the model *)

MaxTime == 6          \* largest start/end instant drawn besides the examples
MaxInterval == 3      \* largest explicit interval drawn besides the examples
MaxNetPosition == 2   \* largest |netPosition| of a position record, on-chain units
MaxPositions == 2     \* longest list of positions summed
MaxOrders == 2        \* most open orders processed against one balance map

-----------------------------------------------------------------------------
(* Program constants *)

ONE_DAY == 1
DAYS_IN_MONTH == 30
DEFAULT_NUMBER_OF_BUCKETS == DAYS_IN_MONTH

-----------------------------------------------------------------------------
(* Optional values: null / undefined is the empty sequence *)

Null == <<>>
Some(v) == <<v>>
IsNull(o) == o = <<>>
Val(o) == o[1]

\* the variables of an entry point that the behaviour does not exercise
IdleBucket == bucketArgs = Null /\ bucketRet = Null
IdlePosition == posArgs = Null /\ posRet = Null
IdleSum == tradingPositions = Null /\ summedTrade = Null
IdleEscrow ==
    /\ ordersMarket = Null /\ userSharesBalances = Null
    /\ ordersTotalCost = Null /\ escrowLog = Null
IdleProfitLoss == plArgs = Null /\ plRet = Null /\ plTradingPositions = Null
IdleCall == callArgs = Null /\ callRet = Null

-----------------------------------------------------------------------------
(* bignumber.js values: exact rationals <<n, d>>, d > 0, in lowest terms *)

Abs(x) == IF x < 0 THEN -x ELSE x

RECURSIVE GCD(_, _)
GCD(a, b) == IF b = 0 THEN a ELSE GCD(b, a % b)

NaN == <<0, 0>>
Infinity == <<1, 0>>
NegInfinity == <<-1, 0>>

\* n / d for d # 0, in lowest terms
Rat(n, d) ==
    LET g == GCD(Abs(n), Abs(d))
    IN IF d < 0 THEN <<(-n) \div g, (-d) \div g>> ELSE <<n \div g, d \div g>>

\* new BigNumber(n) for a number n
BN(n) == <<n, 1>>

isFinite(x) == x[2] # 0
isNaN(x) == x = NaN
isZero(x) == x = <<0, 1>>
isNegative(x) == x[1] < 0
negated(x) == <<-x[1], x[2]>>
abs(x) == <<Abs(x[1]), x[2]>>

plus(x, y) ==
    IF isNaN(x) \/ isNaN(y) THEN NaN
    ELSE IF ~isFinite(x) THEN (IF ~isFinite(y) /\ y # x THEN NaN ELSE x)
    ELSE IF ~isFinite(y) THEN y
    ELSE Rat(x[1] * y[2] + y[1] * x[2], x[2] * y[2])

minus(x, y) == plus(x, negated(y))

Sign(x) == IF x[1] < 0 THEN -1 ELSE 1

multipliedBy(x, y) ==
    IF isNaN(x) \/ isNaN(y) THEN NaN
    ELSE IF ~isFinite(x) \/ ~isFinite(y)
    THEN (IF isZero(x) \/ isZero(y) THEN NaN ELSE <<Sign(x) * Sign(y), 0>>)
    ELSE Rat(x[1] * y[1], x[2] * y[2])

\* x / y: a zero divisor gives NaN (0 / 0) or an infinity, never an exception
dividedBy(x, y) ==
    IF isNaN(x) \/ isNaN(y) THEN NaN
    ELSE IF ~isFinite(x) THEN (IF ~isFinite(y) THEN NaN ELSE <<Sign(x) * Sign(y), 0>>)
    ELSE IF ~isFinite(y) THEN BN(0)
    ELSE IF isZero(y) THEN (IF isZero(x) THEN NaN ELSE <<Sign(x), 0>>)
    ELSE Rat(x[1] * y[2], x[2] * y[1])

\* comparisons of finite values
lt(x, y) == x[1] * y[2] < y[1] * x[2]
gt(x, y) == lt(y, x)
lte(x, y) == ~lt(y, x)
gte(x, y) == ~lt(x, y)
eq(x, y) == x = y

\* BigNumber.min of two values, and of the values of a non-empty collection
min(x, y) == IF lt(y, x) THEN y ELSE x

minOf(xs) == CHOOSE x \in xs : \A y \in xs : lte(x, y)

-----------------------------------------------------------------------------
(* Decimal strings: sequences of characters *)

Digits == <<"0", "1", "2", "3", "4", "5", "6", "7", "8", "9">>

RECURSIVE Pow10(_)
Pow10(k) == IF k = 0 THEN 1 ELSE 10 * Pow10(k - 1)

RECURSIVE NatToChars(_)
NatToChars(n) ==
    IF n < 10 THEN <<Digits[n + 1]>>
    ELSE Append(NatToChars(n \div 10), Digits[(n % 10) + 1])

\* the k low decimal digits of f, with leading zeros
RECURSIVE PadDigits(_, _)
PadDigits(f, k) ==
    IF k = 0 THEN <<>>
    ELSE Append(PadDigits(f \div 10, k - 1), Digits[(f % 10) + 1])

\* the number of decimal places of a terminating fraction with denominator d
DecimalPlaces(d) ==
    CHOOSE k \in 0 .. 8 : Pow10(k) % d = 0 /\ \A j \in 0 .. k - 1 : Pow10(j) % d # 0

\* sign, integer part, and k fractional digits of m / 10^k
FixedChars(negative, m, k) ==
    LET body == NatToChars(m \div Pow10(k)) \o
                (IF k = 0 THEN <<>> ELSE <<".">> \o PadDigits(m % Pow10(k), k))
    IN IF negative THEN <<"-">> \o body ELSE body

NonFiniteChars(x) ==
    IF isNaN(x) THEN <<"N", "a", "N">>
    ELSE IF x = Infinity THEN <<"I", "n", "f", "i", "n", "i", "t", "y">>
    ELSE <<"-", "I", "n", "f", "i", "n", "i", "t", "y">>

\* x.toFixed(): every digit of the value, no exponent
toFixed(x) ==
    IF ~isFinite(x) THEN NonFiniteChars(x)
    ELSE LET k == DecimalPlaces(x[2])
         IN FixedChars(x[1] < 0, (Abs(x[1]) * Pow10(k)) \div x[2], k)

\* x.toFixed(dp): rounded to dp places, halves away from zero (ROUND_HALF_UP);
\* the sign of a negative value is kept when it rounds to zero
toFixedDp(x, dp) ==
    IF ~isFinite(x) THEN NonFiniteChars(x)
    ELSE FixedChars(x[1] < 0,
                    (2 * Abs(x[1]) * Pow10(dp) + x[2]) \div (2 * x[2]), dp)

\* x.toString(): as toFixed() below the exponent thresholds (1e21, 1e-7)
toString(x) == toFixed(x)

CharVal(c) == CHOOSE d \in 0 .. 9 : Digits[d + 1] = c

RECURSIVE CharsToNat(_)
CharsToNat(cs) ==
    IF cs = <<>> THEN 0
    ELSE 10 * CharsToNat(SubSeq(cs, 1, Len(cs) - 1)) + CharVal(cs[Len(cs)])

\* new BigNumber(s) for a decimal string s
BigNumber(s) ==
    IF s = <<>> \/ s = NonFiniteChars(NaN) THEN NaN
    ELSE IF s = NonFiniteChars(Infinity) THEN Infinity
    ELSE IF s = NonFiniteChars(NegInfinity) THEN NegInfinity
    ELSE LET negative == s[1] = "-"
             body == IF negative THEN Tail(s) ELSE s
             dots == {i \in 1 .. Len(body) : body[i] = "."}
             p == IF dots = {} THEN Len(body) + 1 ELSE CHOOSE i \in dots : TRUE
             int == SubSeq(body, 1, p - 1)
             frac == SubSeq(body, p + 1, Len(body))
             mag == Rat(CharsToNat(int \o frac), Pow10(Len(frac)))
         IN IF negative THEN negated(mag) ELSE mag

\* the string '0'
ZERO_STR == <<"0">>

-----------------------------------------------------------------------------
(* Fixed-point conversion *)

\* the chain's fixed-point scale, 10^18 in the program, at the model's magnitude
QUINTILLION == 10

\* tick size of a market: (maxPrice - minPrice) / numTicks
numTicksToTickSize(numTicks, minPrice, maxPrice) ==
    dividedBy(minus(maxPrice, minPrice), numTicks)

convertOnChainAmountToDisplayAmount(onChainAmount, tickSize) ==
    dividedBy(onChainAmount, tickSize)

convertOnChainPriceToDisplayPrice(onChainPrice, minPrice, tickSize) ==
    dividedBy(plus(multipliedBy(onChainPrice, tickSize), minPrice), BN(QUINTILLION))

-----------------------------------------------------------------------------
(* getTradingPositionFromProfitLossFrame *)
(* A log's numeric fields (hex strings in the store) are given as the      *)
(* integers they denote.                                                   *)

\* (faulty variant) the profit of a position computed as for a long, whatever its sign
UnrealizedIgnoringSign(netPosition, onChainNetPosition, avgPrice, price) ==
    multipliedBy(abs(netPosition), minus(price, avgPrice))

\* |netPosition| * (short ? avgPrice - price : price - avgPrice)
UnrealizedAt(netPosition, onChainNetPosition, avgPrice, price) ==
    multipliedBy(abs(netPosition),
                 IF isNegative(onChainNetPosition)
                 THEN minus(avgPrice, price)
                 ELSE minus(price, avgPrice))

\* (faulty variant) the collapse folding unrealizedCost into realizedCost without zeroing it
FinalizedCollapseKeepingCost(finalized, onChainNetPosition, p) ==
    IF finalized
    THEN [realizedCost |-> plus(p.unrealizedCost, p.realizedCost),
          realizedProfit |-> plus(p.realizedProfit, p.unrealized),
          unrealized |-> BN(0),
          unrealized24Hr |-> BN(0),
          unrealizedCost |-> p.unrealizedCost,
          avgPrice |-> IF eq(onChainNetPosition, BN(0)) THEN BN(0) ELSE p.avgPrice]
    ELSE p

\* (faulty variant) the collapse zeroing the average price of every finalized position
FinalizedCollapseZeroingPrice(finalized, onChainNetPosition, p) ==
    IF finalized
    THEN [realizedCost |-> plus(p.unrealizedCost, p.realizedCost),
          realizedProfit |-> plus(p.realizedProfit, p.unrealized),
          unrealized |-> BN(0),
          unrealized24Hr |-> BN(0),
          unrealizedCost |-> BN(0),
          avgPrice |-> BN(0)]
    ELSE p

\* if (finalized) { ... }: unrealized profit and cost are folded into the realized ones
FinalizedCollapse(finalized, onChainNetPosition, p) ==
    IF finalized
    THEN [realizedCost |-> plus(p.unrealizedCost, p.realizedCost),
          realizedProfit |-> plus(p.realizedProfit, p.unrealized),
          unrealized |-> BN(0),
          unrealized24Hr |-> BN(0),
          unrealizedCost |-> BN(0),
          avgPrice |-> IF eq(onChainNetPosition, BN(0)) THEN BN(0) ELSE p.avgPrice]
    ELSE p

\* (faulty variant) the 24 hour price converted from the 24 hour outcome value
Last24HrTradePriceFromPrior(onChainOutcomeValue, onChain24HrOutcomeValue, minPrice, tickSize) ==
    IF ~IsNull(onChain24HrOutcomeValue)
    THEN Some(convertOnChainPriceToDisplayPrice(Val(onChain24HrOutcomeValue), minPrice,
                                                tickSize))
    ELSE Null

\* const last24HrTradePrice = onChain24HrOutcomeValue ? ... : undefined; the price
\* is converted from onChainOutcomeValue, as the code does
Last24HrTradePrice(onChainOutcomeValue, onChain24HrOutcomeValue, minPrice, tickSize) ==
    IF ~IsNull(onChain24HrOutcomeValue)
    THEN Some(convertOnChainPriceToDisplayPrice(onChainOutcomeValue, minPrice, tickSize))
    ELSE Null

getTradingPositionFromProfitLossFrame(profitLossFrame, marketDoc, onChainOutcomeValue, onChain24HrOutcomeValue, timestamp, shareTokenBalancesByMarketAndOutcome, finalized) ==
    LET minPrice == BN(marketDoc.prices[1])
        maxPrice == BN(marketDoc.prices[2])
        numTicks == BN(marketDoc.numTicks)
        tickSize == numTicksToTickSize(numTicks, minPrice, maxPrice)
        onChainFrozenFunds == dividedBy(BN(profitLossFrame.frozenFunds), BN(QUINTILLION))
        onChainNetPosition == BN(profitLossFrame.netPosition)
        onChainAvgPrice == dividedBy(BN(profitLossFrame.avgPrice), BN(QUINTILLION))
        onChainRealizedProfit ==
            dividedBy(BN(profitLossFrame.realizedProfit), BN(QUINTILLION))
        onChainRealizedCost ==
            dividedBy(BN(profitLossFrame.realizedCost), BN(QUINTILLION))
        onChainRawPosition ==
            IF /\ ~IsNull(shareTokenBalancesByMarketAndOutcome)
               /\ marketDoc.market \in DOMAIN Val(shareTokenBalancesByMarketAndOutcome)
               /\ profitLossFrame.outcome \in
                      DOMAIN Val(shareTokenBalancesByMarketAndOutcome)[marketDoc.market]
            THEN BN(Val(shareTokenBalancesByMarketAndOutcome)
                        [marketDoc.market][profitLossFrame.outcome].balance)
            ELSE BN(0)
        onChainAvgCost == IF isNegative(onChainNetPosition)
                          THEN minus(numTicks, onChainAvgPrice)
                          ELSE onChainAvgPrice
        onChainUnrealizedCost == multipliedBy(abs(onChainNetPosition), onChainAvgCost)
        frozenFunds == dividedBy(onChainFrozenFunds, BN(QUINTILLION))
        netPosition == convertOnChainAmountToDisplayAmount(onChainNetPosition, tickSize)
        rawPosition == convertOnChainAmountToDisplayAmount(onChainRawPosition, tickSize)
        realizedProfit0 == dividedBy(onChainRealizedProfit, BN(QUINTILLION))
        avgPrice0 == convertOnChainPriceToDisplayPrice(onChainAvgPrice, minPrice, tickSize)
        realizedCost0 == dividedBy(onChainRealizedCost, BN(QUINTILLION))
        unrealizedCost0 == dividedBy(onChainUnrealizedCost, BN(QUINTILLION))
        lastTradePrice ==
            convertOnChainPriceToDisplayPrice(onChainOutcomeValue, minPrice, tickSize)
        last24HrTradePrice ==
            Last24HrTradePrice(onChainOutcomeValue, onChain24HrOutcomeValue, minPrice,
                               tickSize)
        unrealized0 == UnrealizedAt(netPosition, onChainNetPosition, avgPrice0,
                                    lastTradePrice)
        unrealized24Hr0 ==
            IF ~IsNull(onChain24HrOutcomeValue)
            THEN UnrealizedAt(netPosition, onChainNetPosition, avgPrice0,
                              Val(last24HrTradePrice))
            ELSE BN(0)
        shortPrice == minus(dividedBy(maxPrice, BN(QUINTILLION)), lastTradePrice)
        currentValue ==
            multipliedBy(abs(netPosition),
                         IF isNegative(onChainNetPosition) THEN shortPrice
                         ELSE lastTradePrice)
        totalCost == plus(unrealizedCost0, realizedCost0)
        c == FinalizedCollapse(finalized, onChainNetPosition,
                               [realizedCost |-> realizedCost0,
                                realizedProfit |-> realizedProfit0,
                                unrealized |-> unrealized0,
                                unrealized24Hr |-> unrealized24Hr0,
                                unrealizedCost |-> unrealizedCost0,
                                avgPrice |-> avgPrice0])
        realizedCost == c.realizedCost
        realizedProfit == c.realizedProfit
        unrealized == c.unrealized
        unrealized24Hr == c.unrealized24Hr
        unrealizedCost == c.unrealizedCost
        avgPrice == c.avgPrice
        unrealized24HrPercent == IF isZero(unrealizedCost) THEN BN(0)
                                 ELSE dividedBy(unrealized24Hr, unrealizedCost)
        unrealizedPercent == IF isZero(unrealizedCost) THEN BN(0)
                             ELSE dividedBy(unrealized, unrealizedCost)
        totalPercent == dividedBy(plus(realizedProfit, unrealized),
                                  plus(realizedCost, unrealizedCost))
        realizedPercent == IF isZero(realizedCost) THEN BN(0)
                           ELSE dividedBy(realizedProfit, abs(realizedCost))
    IN [timestamp |-> timestamp,
        frozenFunds |-> toFixed(frozenFunds),
        marketId |-> profitLossFrame.market,
        outcome |-> profitLossFrame.outcome,
        netPosition |-> toFixed(netPosition),
        rawPosition |-> toFixed(rawPosition),
        averagePrice |-> toFixed(avgPrice),
        realized |-> toFixed(realizedProfit),
        unrealized |-> toFixed(unrealized),
        unrealized24Hr |-> toFixed(unrealized24Hr),
        total |-> toFixed(plus(realizedProfit, unrealized)),
        unrealizedCost |-> toFixed(unrealizedCost),
        realizedCost |-> toFixed(realizedCost),
        totalCost |-> toFixed(totalCost),
        realizedPercent |-> toFixedDp(realizedPercent, 4),
        unrealizedPercent |-> toFixedDp(unrealizedPercent, 4),
        unrealized24HrPercent |-> toFixedDp(unrealized24HrPercent, 4),
        totalPercent |-> toFixedDp(totalPercent, 4),
        currentValue |-> toFixed(currentValue)]

\* the markets of the model: a yes/no market over [0, 1] with 5 ticks and a
\* scalar market over [1, 3] with 4 ticks (display prices)
MarketDocs ==
    {[market |-> "M1", prices |-> <<0, QUINTILLION>>, numTicks |-> 5],
     [market |-> "M2", prices |-> <<QUINTILLION, 3 * QUINTILLION>>, numTicks |-> 4]}

\* share balances of the account: 4 on-chain units of outcome 1 in each market
ShareTokenBalances ==
    [m \in {"M1", "M2"} |-> [o \in {1} |-> [balance |-> 4]]]

\* position records: net position of both signs and zero; an average price of 0, 2
\* and 2.5 ticks; a realized profit of -1.5, 0 and 1; a realized cost of 0, 1 and 3;
\* frozen funds of 0 and 0.5 (display values)
ProfitLossFrames(market) ==
    [market : {market},
     outcome : {1},
     netPosition : -MaxNetPosition .. MaxNetPosition,
     avgPrice : {0, 2 * QUINTILLION, (5 * QUINTILLION) \div 2},
     realizedProfit : {-((3 * QUINTILLION * QUINTILLION) \div 2), 0,
                       QUINTILLION * QUINTILLION},
     realizedCost : {0, QUINTILLION * QUINTILLION, 3 * QUINTILLION * QUINTILLION},
     frozenFunds : {0, (QUINTILLION * QUINTILLION) \div 2}]

PositionInputs ==
    UNION {[profitLossFrame : ProfitLossFrames(m.market),
            marketDoc : {m},
            onChainOutcomeValue : {BN(0), BN(3), BN(m.numTicks)},
            onChain24HrOutcomeValue : {Null, Some(BN(0)), Some(BN(1))},
            timestamp : {1},
            shareTokenBalancesByMarketAndOutcome : {Null, Some(ShareTokenBalances)},
            finalized : BOOLEAN] : m \in MarketDocs}

InitPosition ==
    /\ op = "getTradingPositionFromProfitLossFrame"
    /\ posArgs \in PositionInputs
    /\ posRet = Null
    /\ IdleBucket /\ IdleSum /\ IdleEscrow /\ IdleProfitLoss /\ IdleCall

CallGetTradingPosition ==
    /\ op = "getTradingPositionFromProfitLossFrame"
    /\ posRet = Null
    /\ posRet' = Some(getTradingPositionFromProfitLossFrame(
                          posArgs.profitLossFrame, posArgs.marketDoc,
                          posArgs.onChainOutcomeValue, posArgs.onChain24HrOutcomeValue,
                          posArgs.timestamp,
                          posArgs.shareTokenBalancesByMarketAndOutcome,
                          posArgs.finalized))
    /\ UNCHANGED <<op, posArgs, varsBucket, varsSum, varsEscrow,
                 varsProfitLoss, varsCall>>

NextPosition == CallGetTradingPosition

SpecPosition == InitPosition /\ [][NextPosition]_vars

\* the display price at which the position of posArgs is valued
PosLastPrice ==
    LET m == posArgs.marketDoc
    IN convertOnChainPriceToDisplayPrice(
           posArgs.onChainOutcomeValue, BN(m.prices[1]),
           numTicksToTickSize(BN(m.numTicks), BN(m.prices[1]), BN(m.prices[2])))

\* the position of posArgs with the sign of netPosition flipped
PosMirror ==
    getTradingPositionFromProfitLossFrame(
        [posArgs.profitLossFrame EXCEPT !.netPosition = -@], posArgs.marketDoc,
        posArgs.onChainOutcomeValue, posArgs.onChain24HrOutcomeValue,
        posArgs.timestamp, posArgs.shareTokenBalancesByMarketAndOutcome,
        posArgs.finalized)

\* C6: sign symmetry.  For a non-finalized position, negating netPosition (same
\* average price, same last price) negates unrealized: a long has
\* |net| * (last - avg), a short |net| * (avg - last).
C6_SignSymmetry ==
    (posRet # Null /\ ~posArgs.finalized) =>
        LET r == Val(posRet)
            size == abs(BigNumber(r.netPosition))
            avg == BigNumber(r.averagePrice)
        IN /\ BigNumber(r.unrealized) = negated(BigNumber(PosMirror.unrealized))
           /\ BigNumber(PosMirror.netPosition) = negated(BigNumber(r.netPosition))
           /\ PosMirror.averagePrice = r.averagePrice
           /\ BigNumber(r.unrealized) =
                  IF posArgs.profitLossFrame.netPosition < 0
                  THEN multipliedBy(size, minus(avg, PosLastPrice))
                  ELSE multipliedBy(size, minus(PosLastPrice, avg))

C6_Witness ==
    /\ posRet # Null
    /\ ~posArgs.finalized
    /\ posArgs.profitLossFrame.netPosition < 0
    /\ isNegative(BigNumber(Val(posRet).unrealized))
    /\ BigNumber(PosMirror.unrealized) = negated(BigNumber(Val(posRet).unrealized))

\* C7: every returned position, finalized or not, has total = realized + unrealized
\* and totalCost = realizedCost + unrealizedCost exactly, on the fields of the
\* returned record itself.
C7_PositionTotals ==
    posRet # Null =>
        LET r == Val(posRet)
        IN /\ BigNumber(r.total) = plus(BigNumber(r.realized), BigNumber(r.unrealized))
           /\ BigNumber(r.totalCost) =
                  plus(BigNumber(r.realizedCost), BigNumber(r.unrealizedCost))

C7_Witness ==
    /\ posRet # Null
    /\ posArgs.finalized
    /\ posArgs.profitLossFrame.netPosition # 0
    /\ posArgs.profitLossFrame.realizedCost # 0
    /\ Val(posRet).unrealizedCost = ZERO_STR
    /\ BigNumber(Val(posRet).realizedCost) # BN(3)
    /\ BigNumber(Val(posRet).realizedCost) # BN(1)
    /\ Val(posRet).totalCost = Val(posRet).realizedCost

\* profit / cost, and 0 when the cost is zero
PercentOf(profit, cost) ==
    IF isZero(cost) THEN BN(0) ELSE dividedBy(profit, cost)

\* a decimal string holding a number whose value is x rounded to 4 places
IsPercent(str, x) ==
    /\ isFinite(BigNumber(str))
    /\ BigNumber(str) = BigNumber(toFixedDp(x, 4))

\* C8 (as claimed, for a position): every percentage field is its profit divided by
\* its cost, and 0 when that cost is zero; no percentage is non-numeric, totalPercent
\* with realizedCost + unrealizedCost = 0 included.
C8_PositionPercentages ==
    posRet # Null =>
        LET r == Val(posRet)
            realized == BigNumber(r.realized)
            unrealized == BigNumber(r.unrealized)
            unrealized24Hr == BigNumber(r.unrealized24Hr)
            realizedCost == BigNumber(r.realizedCost)
            unrealizedCost == BigNumber(r.unrealizedCost)
        IN /\ IsPercent(r.realizedPercent, PercentOf(realized, realizedCost))
           /\ IsPercent(r.unrealizedPercent, PercentOf(unrealized, unrealizedCost))
           /\ IsPercent(r.unrealized24HrPercent,
                        PercentOf(unrealized24Hr, unrealizedCost))
           /\ IsPercent(r.totalPercent,
                        PercentOf(plus(realized, unrealized),
                                  plus(realizedCost, unrealizedCost)))

\* the position of posArgs with the finalized flag unset
PosUnflagged ==
    getTradingPositionFromProfitLossFrame(
        posArgs.profitLossFrame, posArgs.marketDoc, posArgs.onChainOutcomeValue,
        posArgs.onChain24HrOutcomeValue, posArgs.timestamp,
        posArgs.shareTokenBalancesByMarketAndOutcome, FALSE)

\* C24: with the finalized flag set, realized is the record's realized profit plus
\* the unrealized profit computed before the collapse, realizedCost the record's
\* realized cost plus the unrealized cost computed before the collapse, unrealized,
\* unrealized24Hr and unrealizedCost are 0, averagePrice is zeroed exactly when
\* netPosition is 0, and total and totalCost are those of the same inputs with the
\* flag unset.
C24_FinalizationCollapse ==
    (posRet # Null /\ posArgs.finalized) =>
        LET r == Val(posRet)
            u == PosUnflagged
            frame == posArgs.profitLossFrame
        IN /\ BigNumber(u.realized)
                  = dividedBy(BN(frame.realizedProfit), BN(QUINTILLION * QUINTILLION))
           /\ BigNumber(u.realizedCost)
                  = dividedBy(BN(frame.realizedCost), BN(QUINTILLION * QUINTILLION))
           /\ BigNumber(r.realized) = plus(BigNumber(u.realized), BigNumber(u.unrealized))
           /\ BigNumber(r.realizedCost)
                  = plus(BigNumber(u.realizedCost), BigNumber(u.unrealizedCost))
           /\ r.unrealized = ZERO_STR
           /\ r.unrealized24Hr = ZERO_STR
           /\ r.unrealizedCost = ZERO_STR
           /\ r.averagePrice = (IF frame.netPosition = 0 THEN ZERO_STR ELSE u.averagePrice)
           /\ r.total = u.total
           /\ r.totalCost = u.totalCost

\* a finalized short with a profit and a cost to fold and an average price to keep
C24_Witness ==
    /\ posRet # Null
    /\ posArgs.finalized
    /\ posArgs.profitLossFrame.netPosition < 0
    /\ posArgs.profitLossFrame.realizedProfit # 0
    /\ ~isZero(BigNumber(PosUnflagged.unrealized))
    /\ ~isZero(BigNumber(PosUnflagged.unrealizedCost))
    /\ Val(posRet).averagePrice # ZERO_STR
    /\ Val(posRet).realized # PosUnflagged.realized

-----------------------------------------------------------------------------
(* sumTradingPositions *)

\* the accumulator the fold starts from
InitialSummedTrade ==
    [timestamp |-> 0,
     frozenFunds |-> ZERO_STR,
     marketId |-> "",
     realized |-> ZERO_STR,
     unrealized |-> ZERO_STR,
     unrealized24Hr |-> ZERO_STR,
     total |-> ZERO_STR,
     unrealizedCost |-> ZERO_STR,
     realizedCost |-> ZERO_STR,
     totalCost |-> ZERO_STR,
     realizedPercent |-> ZERO_STR,
     unrealizedPercent |-> ZERO_STR,
     unrealized24HrPercent |-> ZERO_STR,
     totalPercent |-> ZERO_STR,
     currentValue |-> ZERO_STR,
     userSharesBalances |-> <<>>]

\* (faulty variant) the iteratee keeping the member's realized profit instead of the sum
SumIterateeOverwriting(resultPosition, tradingPosition) ==
    [InitialSummedTrade EXCEPT
        !.timestamp = tradingPosition.timestamp,
        !.marketId = tradingPosition.marketId,
        !.frozenFunds = toFixed(plus(BigNumber(resultPosition.frozenFunds),
                                     BigNumber(tradingPosition.frozenFunds))),
        !.realized = toFixed(BigNumber(tradingPosition.realized)),
        !.unrealized = toFixed(plus(BigNumber(resultPosition.unrealized),
                                    BigNumber(tradingPosition.unrealized))),
        !.unrealized24Hr = toFixed(plus(BigNumber(resultPosition.unrealized24Hr),
                                        BigNumber(tradingPosition.unrealized24Hr))),
        !.unrealizedCost = toFixed(plus(BigNumber(resultPosition.unrealizedCost),
                                        BigNumber(tradingPosition.unrealizedCost))),
        !.realizedCost = toFixed(plus(BigNumber(resultPosition.realizedCost),
                                      BigNumber(tradingPosition.realizedCost))),
        !.currentValue = toFixed(plus(BigNumber(resultPosition.currentValue),
                                      BigNumber(tradingPosition.currentValue)))]

\* the iteratee of the fold: the seven monetary fields are added, total, totalCost
\* and the percentages are '0'
SumIteratee(resultPosition, tradingPosition) ==
    [timestamp |-> tradingPosition.timestamp,
     frozenFunds |-> toFixed(plus(BigNumber(resultPosition.frozenFunds),
                                  BigNumber(tradingPosition.frozenFunds))),
     marketId |-> tradingPosition.marketId,
     realized |-> toFixed(plus(BigNumber(resultPosition.realized),
                               BigNumber(tradingPosition.realized))),
     unrealized |-> toFixed(plus(BigNumber(resultPosition.unrealized),
                                 BigNumber(tradingPosition.unrealized))),
     unrealized24Hr |-> toFixed(plus(BigNumber(resultPosition.unrealized24Hr),
                                     BigNumber(tradingPosition.unrealized24Hr))),
     total |-> ZERO_STR,
     unrealizedCost |-> toFixed(plus(BigNumber(resultPosition.unrealizedCost),
                                     BigNumber(tradingPosition.unrealizedCost))),
     realizedCost |-> toFixed(plus(BigNumber(resultPosition.realizedCost),
                                   BigNumber(tradingPosition.realizedCost))),
     totalCost |-> ZERO_STR,
     realizedPercent |-> ZERO_STR,
     unrealizedPercent |-> ZERO_STR,
     unrealized24HrPercent |-> ZERO_STR,
     totalPercent |-> ZERO_STR,
     currentValue |-> toFixed(plus(BigNumber(resultPosition.currentValue),
                                   BigNumber(tradingPosition.currentValue))),
     userSharesBalances |-> <<>>]

\* _.reduce(tradingPositions, iteratee, accumulator)
RECURSIVE SumReduce(_, _)
SumReduce(positions, accumulator) ==
    IF positions = <<>> THEN accumulator
    ELSE SumReduce(Tail(positions), SumIteratee(accumulator, Head(positions)))

\* (faulty variant) the totals and percentages derived without the zero-cost guards
SumDeriveUnguarded(summed) ==
    LET realized == BigNumber(summed.realized)
        unrealized == BigNumber(summed.unrealized)
        unrealized24Hr == BigNumber(summed.unrealized24Hr)
        realizedCost == BigNumber(summed.realizedCost)
        unrealizedCost == BigNumber(summed.unrealizedCost)
        total == plus(realized, unrealized)
        totalCost == abs(plus(realizedCost, unrealizedCost))
    IN [summed EXCEPT
           !.total = toFixed(total),
           !.totalCost = toFixed(totalCost),
           !.realizedPercent = toFixedDp(dividedBy(realized, realizedCost), 4),
           !.unrealizedPercent = toFixedDp(dividedBy(unrealized, unrealizedCost), 4),
           !.unrealized24HrPercent =
               toFixedDp(dividedBy(unrealized24Hr, unrealizedCost), 4),
           !.totalPercent = toFixedDp(dividedBy(total, totalCost), 4)]

\* the assignments after the fold: total, totalCost and the four percentages are
\* derived from the summed fields
SumDerive(summed) ==
    LET frozenFunds == BigNumber(summed.frozenFunds)
        realized == BigNumber(summed.realized)
        unrealized == BigNumber(summed.unrealized)
        unrealized24Hr == BigNumber(summed.unrealized24Hr)
        realizedCost == BigNumber(summed.realizedCost)
        unrealizedCost == BigNumber(summed.unrealizedCost)
        total == plus(realized, unrealized)
        totalCost == abs(plus(realizedCost, unrealizedCost))
    IN [summed EXCEPT
           !.realized = toFixed(realized),
           !.frozenFunds = toFixed(frozenFunds),
           !.total = toFixed(total),
           !.totalCost = toFixed(totalCost),
           !.unrealized = toFixed(unrealized),
           !.unrealized24Hr = toFixed(unrealized24Hr),
           !.realizedPercent =
               IF isZero(realizedCost) THEN ZERO_STR
               ELSE toFixedDp(dividedBy(realized, realizedCost), 4),
           !.unrealizedPercent =
               IF isZero(unrealizedCost) THEN ZERO_STR
               ELSE toFixedDp(dividedBy(unrealized, unrealizedCost), 4),
           !.unrealized24HrPercent =
               IF isZero(unrealizedCost) THEN ZERO_STR
               ELSE toFixedDp(dividedBy(unrealized24Hr, unrealizedCost), 4),
           !.totalPercent =
               IF isZero(totalCost) THEN ZERO_STR
               ELSE toFixedDp(dividedBy(total, totalCost), 4)]

\* the members' realized profit over realized cost, ratio by ratio
RECURSIVE RealizedRatioSum(_)
RealizedRatioSum(positions) ==
    IF positions = <<>> THEN BN(0)
    ELSE plus(IF isZero(BigNumber(Head(positions).realizedCost)) THEN BN(0)
              ELSE dividedBy(BigNumber(Head(positions).realized),
                             BigNumber(Head(positions).realizedCost)),
              RealizedRatioSum(Tail(positions)))

\* (faulty variant) the realized percentage taken member by member and added up,
\* instead of derived from the summed profit and the summed cost
sumTradingPositionsAddingRatios(positions) ==
    [SumDerive(SumReduce(positions, InitialSummedTrade)) EXCEPT
        !.realizedPercent = toFixedDp(RealizedRatioSum(positions), 4)]

sumTradingPositions(positions) ==
    SumDerive(SumReduce(positions, InitialSummedTrade))

\* the record getProfitLoss gives an outcome it cannot value at a bucket
UnvaluedPosition(timestamp) ==
    [timestamp |-> timestamp,
     frozenFunds |-> ZERO_STR,
     marketId |-> "",
     realized |-> ZERO_STR,
     unrealized |-> ZERO_STR,
     unrealized24Hr |-> ZERO_STR,
     total |-> ZERO_STR,
     unrealizedCost |-> ZERO_STR,
     realizedCost |-> ZERO_STR,
     totalCost |-> ZERO_STR,
     realizedPercent |-> ZERO_STR,
     unrealizedPercent |-> ZERO_STR,
     totalPercent |-> ZERO_STR,
     currentValue |-> ZERO_STR]

\* the members summed: positions of market M1 as getTradingPositionFromProfitLossFrame
\* returns them (long, short and closed; finalized or not), the record of an
\* unvalued outcome, and a position whose realized cost is negative
SumFrames ==
    [market : {"M1"},
     outcome : {1},
     netPosition : {-1, 0, 2},
     avgPrice : {2 * QUINTILLION},
     realizedProfit : {-((3 * QUINTILLION * QUINTILLION) \div 2),
                       QUINTILLION * QUINTILLION},
     realizedCost : {0, 3 * QUINTILLION * QUINTILLION},
     frozenFunds : {(QUINTILLION * QUINTILLION) \div 2}]

NegativeCostPosition ==
    [InitialSummedTrade EXCEPT
        !.timestamp = 2,
        !.marketId = "M2",
        !.realized = <<"-", "2">>,
        !.unrealized = <<"0", ".", "5">>,
        !.total = <<"-", "1", ".", "5">>,
        !.realizedCost = <<"-", "3", ".", "4">>,
        !.totalCost = <<"3", ".", "4">>,
        !.realizedPercent = <<"0", ".", "5", "8", "8", "2">>,
        !.totalPercent = <<"-", "0", ".", "4", "4", "1", "2">>]

SumInputs ==
    {getTradingPositionFromProfitLossFrame(
         f, CHOOSE m \in MarketDocs : m.market = "M1", BN(3), Some(BN(1)), 1,
         Some(ShareTokenBalances), finalized) : f \in SumFrames, finalized \in BOOLEAN}
    \cup {UnvaluedPosition(1), NegativeCostPosition}

InitSum ==
    /\ op = "sumTradingPositions"
    /\ tradingPositions = <<>>
    /\ summedTrade = Null
    /\ IdleBucket /\ IdlePosition /\ IdleEscrow /\ IdleProfitLoss /\ IdleCall

\* the caller builds the list
PushTradingPosition ==
    /\ op = "sumTradingPositions"
    /\ summedTrade = Null
    /\ Len(tradingPositions) < MaxPositions
    /\ \E p \in SumInputs : tradingPositions' = Append(tradingPositions, p)
    /\ UNCHANGED <<op, summedTrade, varsBucket, varsPosition, varsEscrow,
                 varsProfitLoss, varsCall>>

CallSumTradingPositions ==
    /\ op = "sumTradingPositions"
    /\ summedTrade = Null
    /\ summedTrade' = Some(sumTradingPositions(tradingPositions))
    /\ UNCHANGED <<op, tradingPositions, varsBucket, varsPosition, varsEscrow,
                 varsProfitLoss, varsCall>>

NextSum == PushTradingPosition \/ CallSumTradingPositions

SpecSum == InitSum /\ [][NextSum]_vars

\* the sum of one field over the members of a list
RECURSIVE FieldSum(_, _)
FieldSum(positions, field) ==
    IF positions = <<>> THEN BN(0)
    ELSE plus(BigNumber(Head(positions)[field]), FieldSum(Tail(positions), field))

C4_EmptySum ==
    (summedTrade # Null /\ tradingPositions = <<>>) =>
        \A f \in {"frozenFunds", "realized", "unrealized", "unrealized24Hr", "total",
                  "realizedCost", "unrealizedCost", "totalCost", "currentValue",
                  "realizedPercent", "unrealizedPercent", "unrealized24HrPercent",
                  "totalPercent"} : Val(summedTrade)[f] = <<"0">>

C4_Witness ==
    /\ summedTrade # Null
    /\ tradingPositions = <<>>
    /\ Val(summedTrade).totalPercent = <<"0">>

\* the fields a rollup is compared on: the seven summed amounts, total, totalCost
\* and the four percentages
RollupFields ==
    {"frozenFunds", "realized", "unrealized", "unrealized24Hr", "realizedCost",
     "unrealizedCost", "currentValue", "total", "totalCost", "realizedPercent",
     "unrealizedPercent", "unrealized24HrPercent", "totalPercent"}

SameRollup(a, b) == \A f \in RollupFields : a[f] = b[f]

ReverseSeq(s) == [i \in 1..Len(s) |-> s[Len(s) + 1 - i]]

\* C25: the ratios are derived after the raw components are summed, so for every
\* split of the list into A followed by B the rollup of the two rollups
\* sumTradingPositions([sumTradingPositions(A), sumTradingPositions(B)]) has the
\* same amounts, total, totalCost and percentages as the rollup of the whole list,
\* and so has the rollup of the members in the opposite order.
C25_RollupOfRollups ==
    summedTrade # Null =>
        /\ \A k \in 0..Len(tradingPositions) :
               SameRollup(
                   sumTradingPositions(
                       <<sumTradingPositions(SubSeq(tradingPositions, 1, k)),
                         sumTradingPositions(SubSeq(tradingPositions, k + 1,
                                                    Len(tradingPositions)))>>),
                   Val(summedTrade))
        /\ SameRollup(sumTradingPositions(ReverseSeq(tradingPositions)),
                      Val(summedTrade))

\* two members whose own realized percentages differ from each other and from the
\* percentage of their rollup
C25_Witness ==
    /\ summedTrade # Null
    /\ Len(tradingPositions) = 2
    /\ tradingPositions[1].realizedPercent # tradingPositions[2].realizedPercent
    /\ ~isZero(BigNumber(tradingPositions[1].realizedCost))
    /\ ~isZero(BigNumber(tradingPositions[2].realizedCost))
    /\ Val(summedTrade).realizedPercent # tradingPositions[1].realizedPercent
    /\ Val(summedTrade).realizedPercent # tradingPositions[2].realizedPercent
    /\ Val(summedTrade).realizedPercent # ZERO_STR

-----------------------------------------------------------------------------
(* addEscrowedAmountsDecrementShares, as getUserOpenOrders calls it *)
(* Outcomes are the keys of the balance map: strings.  An order's amount   *)
(* and price are decimal strings in display units.                         *)

\* (faulty variant) the balances a bid may draw on, the bid's own outcome included
AllOutcomeBalances(balances, outcome) ==
    {BigNumber(balances[o]) : o \in DOMAIN balances}

\* userSharesBalancesRemoveOutcome: the balances of the outcomes other than the bid's
OtherOutcomeBalances(balances, outcome) ==
    {BigNumber(balances[o]) : o \in DOMAIN balances \ {outcome}}

\* (faulty variant) the bid branch leaving the balance map as it found it
EscrowBidKeepingBalances(order, outcome, displayMinPrice, balances) ==
    LET others == {BigNumber(balances[o]) : o \in DOMAIN balances \ {outcome}}
        sharesUsed == min(BigNumber(order.amount),
                          IF others # {} THEN minOf(others) ELSE BN(0))
        amt == minus(BigNumber(order.amount), sharesUsed)
    IN [cost |-> multipliedBy(amt, minus(BigNumber(order.price), displayMinPrice)),
        sharesUsed |-> sharesUsed,
        balances |-> balances]

\* if (orderType === 0) { ... }
EscrowBid(order, outcome, displayMinPrice, balances) ==
    LET userSharesBalancesRemoveOutcome == OtherOutcomeBalances(balances, outcome)
        minOutcomeShareAmount ==
            IF userSharesBalancesRemoveOutcome # {}
            THEN minOf(userSharesBalancesRemoveOutcome)
            ELSE BN(0)
        sharesUsed == min(BigNumber(order.amount), minOutcomeShareAmount)
        amt == minus(BigNumber(order.amount), sharesUsed)
        cost == multipliedBy(amt, minus(BigNumber(order.price), displayMinPrice))
    IN [cost |-> cost,
        sharesUsed |-> sharesUsed,
        balances |-> [o \in DOMAIN balances |->
                         IF outcome # o
                         THEN toString(minus(BigNumber(balances[o]), sharesUsed))
                         ELSE balances[o]]]

\* (faulty variant) the ask branch taking the whole amount from the outcome's balance
EscrowAskOverdrawing(order, outcome, displayMaxPrice, balances) ==
    LET sharesBN == IF outcome \in DOMAIN balances
                    THEN BigNumber(balances[outcome]) ELSE BN(0)
        sharesUsed == min(BigNumber(order.amount), sharesBN)
        cost == multipliedBy(minus(BigNumber(order.amount), sharesUsed),
                             minus(displayMaxPrice, BigNumber(order.price)))
    IN [cost |-> cost,
        sharesUsed |-> sharesUsed,
        balances |-> [o \in DOMAIN balances \cup {outcome} |->
                         IF o = outcome
                         THEN toString(minus(sharesBN, BigNumber(order.amount)))
                         ELSE balances[o]]]

\* else { ... }: an ask
EscrowAsk(order, outcome, displayMaxPrice, balances) ==
    LET sharesBN == IF outcome \in DOMAIN balances
                    THEN BigNumber(balances[outcome]) ELSE BN(0)
        sharesUsed == min(BigNumber(order.amount), sharesBN)
        cost == multipliedBy(minus(BigNumber(order.amount), sharesUsed),
                             minus(displayMaxPrice, BigNumber(order.price)))
    IN [cost |-> cost,
        sharesUsed |-> sharesUsed,
        balances |-> [o \in DOMAIN balances \cup {outcome} |->
                         IF o = outcome
                         THEN (IF gt(sharesBN, BN(0))
                               THEN toString(minus(sharesBN, sharesUsed))
                               ELSE toString(sharesBN))
                         ELSE balances[o]]]

\* (faulty variant) every order measured against a copy of the balance map
addEscrowedAmountsOnCopy(order, outcome, orderType, marketDoc, balances) ==
    LET displayMaxPrice == dividedBy(BN(marketDoc.prices[2]), BN(QUINTILLION))
        displayMinPrice == dividedBy(BN(marketDoc.prices[1]), BN(QUINTILLION))
        r == IF orderType = 0
             THEN EscrowBid(order, outcome, displayMinPrice, balances)
             ELSE EscrowAsk(order, outcome, displayMaxPrice, balances)
    IN [order |-> [order EXCEPT !.tokensEscrowed = toString(r.cost),
                                !.sharesEscrowed = toString(r.sharesUsed)],
        userSharesBalances |-> balances]

\* the order and the balance map as the call leaves them
addEscrowedAmountsDecrementShares(order, outcome, orderType, marketDoc, balances) ==
    LET maxPrice == BN(marketDoc.prices[2])
        minPrice == BN(marketDoc.prices[1])
        displayMaxPrice == dividedBy(maxPrice, BN(QUINTILLION))
        displayMinPrice == dividedBy(minPrice, BN(QUINTILLION))
        r == IF orderType = 0
             THEN EscrowBid(order, outcome, displayMinPrice, balances)
             ELSE EscrowAsk(order, outcome, displayMaxPrice, balances)
    IN [order |-> [order EXCEPT !.tokensEscrowed = toString(r.cost),
                                !.sharesEscrowed = toString(r.sharesUsed)],
        userSharesBalances |-> r.balances]

Outcomes == {"0", "1", "2"}

\* the balance maps getUserTradingPositions can hand over: any set of tracked
\* outcomes, each with a balance of 0, 2.5 or 4 shares
BalanceMaps ==
    UNION {[tracked -> {<<"0">>, <<"2", ".", "5">>, <<"4">>}] :
               tracked \in SUBSET Outcomes}

\* open orders: 3 or 10 shares at a price inside the market's range
OrderPrices(marketDoc) ==
    IF marketDoc.market = "M1" THEN {<<"0", ".", "6">>} ELSE {<<"1", ".", "5">>}

OpenOrders(marketDoc) ==
    [amount : {<<"3">>, <<"1", "0">>},
     price : OrderPrices(marketDoc),
     tokensEscrowed : {<<>>},
     sharesEscrowed : {<<>>}]

InitEscrow ==
    /\ op = "getUserOpenOrders"
    /\ ordersMarket \in MarketDocs
    /\ userSharesBalances \in BalanceMaps
    /\ ordersTotalCost = BN(0)
    /\ escrowLog = <<>>
    /\ IdleBucket /\ IdlePosition /\ IdleSum /\ IdleProfitLoss /\ IdleCall

\* one iteration of the innermost forEach of getUserOpenOrders
ProcessOrder ==
    /\ op = "getUserOpenOrders"
    /\ Len(escrowLog) < MaxOrders
    /\ \E order \in OpenOrders(ordersMarket), outcome \in Outcomes, orderType \in {0, 1} :
          LET r == addEscrowedAmountsDecrementShares(order, outcome, orderType,
                                                     ordersMarket, userSharesBalances)
          IN /\ userSharesBalances' = r.userSharesBalances
             /\ ordersTotalCost' = plus(ordersTotalCost, BigNumber(r.order.tokensEscrowed))
             /\ escrowLog' = Append(escrowLog,
                                    [order |-> r.order,
                                     outcome |-> outcome,
                                     orderType |-> orderType,
                                     before |-> userSharesBalances,
                                     after |-> r.userSharesBalances])
    /\ UNCHANGED <<op, ordersMarket, varsBucket, varsPosition, varsSum,
                 varsProfitLoss, varsCall>>

NextEscrow == ProcessOrder

SpecEscrow == InitEscrow /\ [][NextEscrow]_vars

\* quantities the escrow claims are stated with, read off a log entry
EntryAmount(e) == BigNumber(e.order.amount)
EntryPrice(e) == BigNumber(e.order.price)
EntryShares(e) == BigNumber(e.order.sharesEscrowed)
EntryTokens(e) == BigNumber(e.order.tokensEscrowed)
DisplayMin == Rat(ordersMarket.prices[1], QUINTILLION)
DisplayMax == Rat(ordersMarket.prices[2], QUINTILLION)
BalanceOf(balances, o) == IF o \in DOMAIN balances THEN BigNumber(balances[o]) ELSE BN(0)
LogEntries == {escrowLog[i] : i \in 1..Len(escrowLog)}

\* the smallest tracked balance among the outcomes other than o, 0 when there is none
ComplementaryBalance(balances, o) ==
    LET others == DOMAIN balances \ {o}
    IN IF others = {} THEN BN(0)
       ELSE BigNumber(balances[CHOOSE x \in others :
                         \A y \in others : lte(BigNumber(balances[x]), BigNumber(balances[y]))])

\* C9: a bid on outcome o escrows min(amount, smallest tracked balance of the other
\* outcomes) shares (0 when no other outcome is tracked) and
\* (amount - sharesEscrowed) * (price - minPrice) tokens, lowers the balance of every
\* other tracked outcome by sharesEscrowed and leaves the balance of o as it was;
\* with amount 10, price 0.6 and complementary balance 4 it escrows tokens for 6
\* units (3.6) and takes 4 from every other outcome.
C9_BidEscrow ==
    op = "getUserOpenOrders" =>
        \A e \in LogEntries :
            e.orderType = 0 =>
                LET shares == min(EntryAmount(e), ComplementaryBalance(e.before, e.outcome))
                IN /\ eq(EntryShares(e), shares)
                   /\ eq(EntryTokens(e),
                         multipliedBy(minus(EntryAmount(e), shares),
                                      minus(EntryPrice(e), DisplayMin)))
                   /\ DOMAIN e.after = DOMAIN e.before
                   /\ \A o \in DOMAIN e.before :
                         IF o = e.outcome
                         THEN e.after[o] = e.before[o]
                         ELSE eq(BigNumber(e.after[o]),
                                 minus(BigNumber(e.before[o]), shares))
                   /\ (/\ e.order.amount = <<"1", "0">>
                       /\ e.order.price = <<"0", ".", "6">>
                       /\ ordersMarket.prices[1] = 0
                       /\ eq(ComplementaryBalance(e.before, e.outcome), BN(4)))
                      => /\ e.order.sharesEscrowed = <<"4">>
                         /\ e.order.tokensEscrowed = <<"3", ".", "6">>
                         /\ \A o \in DOMAIN e.before \ {e.outcome} :
                               eq(BigNumber(e.after[o]), minus(BigNumber(e.before[o]), BN(4)))

\* a bid of 10 at 0.6 on an outcome holding 2.5 whose two complementary outcomes
\* hold 4 each: 4 shares are used, 3.6 tokens escrowed, the other two drop to 0
C9_Witness ==
    /\ op = "getUserOpenOrders"
    /\ \E e \in LogEntries :
          /\ e.orderType = 0
          /\ e.order.amount = <<"1", "0">>
          /\ e.order.price = <<"0", ".", "6">>
          /\ ordersMarket.prices[1] = 0
          /\ DOMAIN e.before = Outcomes
          /\ e.before[e.outcome] = <<"2", ".", "5">>
          /\ \A o \in Outcomes \ {e.outcome} : e.before[o] = <<"4">>
          /\ e.order.sharesEscrowed = <<"4">>
          /\ e.order.tokensEscrowed = <<"3", ".", "6">>
          /\ \A o \in Outcomes \ {e.outcome} : e.after[o] = <<"0">>

\* C10: an ask on outcome o escrows min(amount, balance of o) shares (balance 0 when
\* o is untracked) and (amount - sharesEscrowed) * (maxPrice - price) tokens, lowers
\* the balance of o by sharesEscrowed without taking it below zero, and leaves the
\* balance of every other outcome as it was.
C10_AskEscrow ==
    op = "getUserOpenOrders" =>
        \A e \in LogEntries :
            e.orderType # 0 =>
                LET balance == BalanceOf(e.before, e.outcome)
                    shares == min(EntryAmount(e), balance)
                IN /\ eq(EntryShares(e), shares)
                   /\ eq(EntryTokens(e),
                         multipliedBy(minus(EntryAmount(e), shares),
                                      minus(DisplayMax, EntryPrice(e))))
                   /\ eq(BalanceOf(e.after, e.outcome), minus(balance, shares))
                   /\ gte(BalanceOf(e.after, e.outcome), BN(0))
                   /\ \A o \in Outcomes \ {e.outcome} :
                         /\ o \in DOMAIN e.after <=> o \in DOMAIN e.before
                         /\ o \in DOMAIN e.before => e.after[o] = e.before[o]

\* an ask of 3 against a balance of 2.5 in a market whose other outcomes hold shares:
\* 2.5 shares are used, the balance drops to 0, 0.5 units are escrowed in tokens
C10_Witness ==
    /\ op = "getUserOpenOrders"
    /\ \E e \in LogEntries :
          /\ e.orderType = 1
          /\ e.order.amount = <<"3">>
          /\ DOMAIN e.before = Outcomes
          /\ e.before[e.outcome] = <<"2", ".", "5">>
          /\ \A o \in Outcomes \ {e.outcome} : e.before[o] = <<"4">>
          /\ e.order.sharesEscrowed = <<"2", ".", "5">>
          /\ e.after[e.outcome] = <<"0">>
          /\ ~isZero(EntryTokens(e))

\* the balance map before the first order was processed
InitialBalances == IF escrowLog = <<>> THEN userSharesBalances ELSE escrowLog[1].before

\* an order draws on outcome o: an ask on o, or a bid on another outcome
DrawsOn(e, o) == IF e.orderType = 0 THEN e.outcome # o ELSE e.outcome = o

\* the shares the first n processed orders drew from outcome o
RECURSIVE SharesDrawn(_, _)
SharesDrawn(o, n) ==
    IF n = 0 THEN BN(0)
    ELSE plus(SharesDrawn(o, n - 1),
              IF DrawsOn(escrowLog[n], o) THEN EntryShares(escrowLog[n]) ELSE BN(0))

\* C15: after any sequence of bids and asks against one balance map whose entries
\* start >= 0, every tracked balance is still >= 0, and for each outcome o of the
\* map the shares drawn from o (sharesEscrowed of the asks on o and of the bids on
\* the other outcomes) total initial[o] - final[o], hence at most initial[o].
C15_NoDoubleCounting ==
    op = "getUserOpenOrders" =>
        /\ \A o \in DOMAIN userSharesBalances : gte(BigNumber(userSharesBalances[o]), BN(0))
        /\ \A o \in DOMAIN InitialBalances :
              /\ o \in DOMAIN userSharesBalances
              /\ eq(SharesDrawn(o, Len(escrowLog)),
                    minus(BigNumber(InitialBalances[o]), BigNumber(userSharesBalances[o])))
              /\ lte(SharesDrawn(o, Len(escrowLog)), BigNumber(InitialBalances[o]))

\* a bid of 3 on outcome 0 followed by an ask of 3 on outcome 1, which held 4: the
\* bid has taken 3 of them, the ask finds 1 left, and outcome 1 ends at 0
C15_Witness ==
    /\ op = "getUserOpenOrders"
    /\ Len(escrowLog) = 2
    /\ DOMAIN InitialBalances = Outcomes
    /\ \A o \in Outcomes : InitialBalances[o] = <<"4">>
    /\ escrowLog[1].orderType = 0 /\ escrowLog[1].outcome = "0"
    /\ escrowLog[1].order.sharesEscrowed = <<"3">>
    /\ escrowLog[2].orderType = 1 /\ escrowLog[2].outcome = "1"
    /\ escrowLog[2].order.amount = <<"3">>
    /\ escrowLog[2].order.sharesEscrowed = <<"1">>
    /\ userSharesBalances["1"] = <<"0">>

\* C16: the shares a bid on outcome o escrows are at most the account's balance of
\* every other outcome of the market, an outcome without a tracked balance counting
\* as balance 0.
C16_BidBasket ==
    op = "getUserOpenOrders" =>
        \A e \in LogEntries :
            e.orderType = 0 =>
                \A o \in Outcomes \ {e.outcome} :
                    lte(EntryShares(e), BalanceOf(e.before, o))

\* a processed order is never rewritten by the orders processed after it
LogPrefixKept ==
    /\ Len(escrowLog') >= Len(escrowLog)
    /\ \A i \in 1..Len(escrowLog) : escrowLog'[i] = escrowLog[i]

\* two bids on one outcome, processed one after the other
CompetingBids ==
    (Len(escrowLog) = 2 /\ escrowLog[1].orderType = 0 /\ escrowLog[2].orderType = 0
        /\ escrowLog[1].outcome = escrowLog[2].outcome) =>
        LET b == ComplementaryBalance(InitialBalances, escrowLog[1].outcome)
            offset1 == min(EntryAmount(escrowLog[1]), b)
        IN /\ eq(EntryShares(escrowLog[1]), offset1)
           /\ eq(EntryShares(escrowLog[2]),
                 min(EntryAmount(escrowLog[2]), minus(b, offset1)))

\* the order processed last is what the call yields on the balances its
\* predecessors left; the earlier ones were checked when they were the last
EscrowFromPredecessors ==
    escrowLog # <<>> =>
        LET i == Len(escrowLog)
            e == escrowLog[i]
            left == IF i = 1 THEN InitialBalances ELSE escrowLog[i - 1].after
            r == addEscrowedAmountsDecrementShares(
                     [e.order EXCEPT !.tokensEscrowed = <<>>, !.sharesEscrowed = <<>>],
                     e.outcome, e.orderType, ordersMarket, left)
        IN /\ e.before = left
           /\ e.order = r.order
           /\ e.after = r.userSharesBalances
           /\ userSharesBalances = e.after

\* C17: offsets are granted in processing order: what an order escrows is fixed by
\* the initial balances and the orders processed before it and is not changed by a
\* later order; of two bids on one outcome with complementary balance b the first
\* gets min(amount1, b) and the second min(amount2, b - offset1).
C17_ProcessingOrder ==
    /\ [](op = "getUserOpenOrders" => (CompetingBids /\ EscrowFromPredecessors))
    /\ [][op = "getUserOpenOrders" => LogPrefixKept]_vars

\* two bids of 3 on outcome 0 against a complementary balance of 4: 3, then 1
C17_Witness ==
    /\ op = "getUserOpenOrders"
    /\ Len(escrowLog) = 2
    /\ escrowLog[1].orderType = 0 /\ escrowLog[2].orderType = 0
    /\ escrowLog[1].outcome = "0" /\ escrowLog[2].outcome = "0"
    /\ DOMAIN InitialBalances = Outcomes
    /\ eq(ComplementaryBalance(InitialBalances, "0"), BN(4))
    /\ escrowLog[1].order.amount = <<"3">> /\ escrowLog[2].order.amount = <<"3">>
    /\ escrowLog[1].order.sharesEscrowed = <<"3">>
    /\ escrowLog[2].order.sharesEscrowed = <<"1">>

-----------------------------------------------------------------------------
(* bucketRangeByInterval *)

\* Math.ceil(a / b) for integers a >= 0, b > 0
Ceil(a, b) == (a + b - 1) \div b

\* (faulty variant) the loop with an inclusive bound: it pushes endTime itself as well
RECURSIVE BucketLoopInclusive(_, _, _, _)
BucketLoopInclusive(bucketEndTime, endTime, interval, buckets) ==
    IF bucketEndTime <= endTime /\ (interval > 0 \/ buckets = <<>>)
    THEN BucketLoopInclusive(bucketEndTime + interval, endTime, interval,
                             Append(buckets, bucketEndTime))
    ELSE buckets

\* the for loop of bucketRangeByInterval: push bucketEndTime while it is < endTime
RECURSIVE BucketLoop(_, _, _, _)
BucketLoop(bucketEndTime, endTime, interval, buckets) ==
    IF bucketEndTime < endTime
    THEN BucketLoop(bucketEndTime + interval, endTime, interval,
                    Append(buckets, bucketEndTime))
    ELSE buckets

Threw(msg) == [status |-> "threw", buckets |-> <<>>, error |-> msg]

\* (faulty variant) bucketRangeByInterval without its endTime < startTime check
bucketRangeNoOrderCheck(startTime, endTime, periodInterval) ==
    IF startTime < 0 \/ endTime < 0
    THEN Threw("startTime or endTime must be a valid unix timestamp, greater than 0")
    ELSE IF ~IsNull(periodInterval) /\ Val(periodInterval) <= 0
    THEN Threw("periodInterval must be positive integer (seconds)")
    ELSE LET interval == IF IsNull(periodInterval)
                         THEN Ceil(endTime - startTime, DEFAULT_NUMBER_OF_BUCKETS)
                         ELSE Val(periodInterval)
         IN [status |-> "returned",
             buckets |-> Append(BucketLoop(startTime, endTime, interval, <<>>),
                                endTime),
             error |-> ""]

bucketRangeByInterval(startTime, endTime, periodInterval) ==
    IF startTime < 0
    THEN Threw("startTime must be a valid unix timestamp, greater than 0")
    ELSE IF endTime < 0
    THEN Threw("endTime must be a valid unix timestamp, greater than 0")
    ELSE IF endTime < startTime
    THEN Threw("endTime must be greater than or equal startTime")
    ELSE IF ~IsNull(periodInterval) /\ Val(periodInterval) <= 0
    THEN Threw("periodInterval must be positive integer (seconds)")
    ELSE LET interval == IF IsNull(periodInterval)
                         THEN Ceil(endTime - startTime, DEFAULT_NUMBER_OF_BUCKETS)
                         ELSE Val(periodInterval)
         IN [status |-> "returned",
             buckets |-> Append(BucketLoop(startTime, endTime, interval, <<>>),
                                endTime),
             error |-> ""]

\* inputs: a grid of small instants and intervals (one negative of each, and the
\* null interval), and the inputs of the documented examples
BucketTimes == -1 .. MaxTime
BucketIntervals == {Null} \cup {Some(i) : i \in -1 .. MaxInterval}
BucketExamples ==
    {[startTime |-> s, endTime |-> 100, periodInterval |-> p] :
        s \in {0, 50, 100}, p \in {Null, Some(25), Some(30), Some(100)}}
BucketInputs ==
    [startTime : BucketTimes, endTime : BucketTimes, periodInterval : BucketIntervals]
        \cup BucketExamples

InitBucket ==
    /\ op = "bucketRangeByInterval"
    /\ bucketArgs \in BucketInputs
    /\ bucketRet = [status |-> "pending", buckets |-> <<>>, error |-> ""]
    /\ IdlePosition /\ IdleSum /\ IdleEscrow /\ IdleProfitLoss /\ IdleCall

CallBucketRangeByInterval ==
    /\ op = "bucketRangeByInterval"
    /\ bucketRet.status = "pending"
    /\ bucketRet' = bucketRangeByInterval(bucketArgs.startTime, bucketArgs.endTime,
                                          bucketArgs.periodInterval)
    /\ UNCHANGED <<op, bucketArgs, varsPosition, varsSum, varsEscrow,
                 varsProfitLoss, varsCall>>

NextBucket == CallBucketRangeByInterval

SpecBucket == InitBucket /\ [][NextBucket]_vars

\* the arguments are valid: 0 <= start <= end and the interval is null or positive
BucketArgsValid ==
    /\ 0 <= bucketArgs.startTime
    /\ bucketArgs.startTime <= bucketArgs.endTime
    /\ IsNull(bucketArgs.periodInterval) \/ Val(bucketArgs.periodInterval) > 0

\* the interval the series steps by: the supplied one, or ceil((end - start) / 30)
BucketStep ==
    IF IsNull(bucketArgs.periodInterval)
    THEN Ceil(bucketArgs.endTime - bucketArgs.startTime, 30)
    ELSE Val(bucketArgs.periodInterval)

\* C1: for every valid input the call returns the instants start, start + interval,
\* start + 2*interval, ... that are < end (all of them, in order), followed by end:
\* the series is non-empty, strictly increasing and ends at end; (t, t, any) gives
\* [t] and (0, 100, 25) gives [0, 25, 50, 75, 100].
C1_BucketSeries ==
    (bucketRet.status # "pending" /\ BucketArgsValid) =>
        LET b == bucketRet.buckets
            n == Len(b)
            s == bucketArgs.startTime
            e == bucketArgs.endTime
        IN /\ bucketRet.status = "returned"
           /\ n >= 1
           /\ b[n] = e
           /\ \A i \in 1 .. n - 1 : b[i] = s + (i - 1) * BucketStep /\ b[i] < e
           /\ s + (n - 1) * BucketStep >= e
           /\ \A i \in 1 .. n - 1 : b[i] < b[i + 1]
           /\ (s = e) => b = <<e>>
           /\ (s = 0 /\ e = 100 /\ bucketArgs.periodInterval = Some(25))
                  => b = <<0, 25, 50, 75, 100>>

C1_Witness ==
    /\ bucketRet.status = "returned"
    /\ bucketArgs = [startTime |-> 0, endTime |-> 100, periodInterval |-> Some(25)]
    /\ bucketRet.buckets = <<0, 25, 50, 75, 100>>

\* C2: the call fails, with no series, exactly when start < 0, end < 0, end < start
\* or a supplied interval is <= 0; every other input (a null interval with
\* start = end included) returns a series.
C2_BucketErrors ==
    bucketRet.status # "pending" =>
        /\ bucketRet.status = "threw" <=>
               \/ bucketArgs.startTime < 0
               \/ bucketArgs.endTime < 0
               \/ bucketArgs.endTime < bucketArgs.startTime
               \/ (~IsNull(bucketArgs.periodInterval)
                      /\ Val(bucketArgs.periodInterval) <= 0)
        /\ bucketRet.status = "threw" => bucketRet.buckets = <<>>
        /\ bucketRet.status # "threw" =>
               bucketRet.status = "returned" /\ bucketRet.buckets # <<>>

C2_Witness ==
    /\ bucketRet.status = "threw"
    /\ 0 <= bucketArgs.startTime
    /\ bucketArgs.endTime < bucketArgs.startTime
    /\ 0 <= bucketArgs.endTime

-----------------------------------------------------------------------------
(* getProfitLoss *)
(* A log's timestamp is kept as the store keeps it, a hex string written   *)
(* as `0x${n.toString(16)}`: the queries compare it as a string, the       *)
(* bucket loop as a number.                                                *)

HexDigits == <<"0", "1", "2", "3", "4", "5", "6", "7", "8", "9",
               "a", "b", "c", "d", "e", "f">>

\* n.toString(16)
RECURSIVE HexChars(_)
HexChars(n) ==
    IF n < 16 THEN <<HexDigits[n + 1]>>
    ELSE Append(HexChars(n \div 16), HexDigits[(n % 16) + 1])

\* `0x${n.toString(16)}`
HexTimestamp(n) == <<"0", "x">> \o HexChars(n)

\* new BigNumber(hex) and the base-16 reading of timestamp.gte(hex, 16)
RECURSIVE HexValue(_)
HexValue(cs) ==
    IF cs = <<>> THEN 0
    ELSE 16 * HexValue(SubSeq(cs, 1, Len(cs) - 1))
         + ((CHOOSE i \in 1..16 : HexDigits[i] = cs[Len(cs)]) - 1)

ParseHexTimestamp(h) == HexValue(SubSeq(h, 3, Len(h)))

\* the order of the characters of a hex string as code units: digits, letters, x
CodeUnit(c) ==
    IF c = "x" THEN 17 ELSE CHOOSE i \in 1..16 : HexDigits[i] = c

\* a <= b on strings: by code unit, a proper prefix first
RECURSIVE StringLte(_, _)
StringLte(a, b) ==
    IF a = <<>> THEN TRUE
    ELSE IF b = <<>> THEN FALSE
    ELSE IF a[1] = b[1] THEN StringLte(Tail(a), Tail(b))
    ELSE CodeUnit(a[1]) < CodeUnit(b[1])

\* (faulty variant) the prefix of the logs strictly before the instant
RECURSIVE TakeWhileStrictlyBefore(_, _)
TakeWhileStrictlyBefore(docs, timestamp) ==
    IF docs = <<>> THEN <<>>
    ELSE IF timestamp > ParseHexTimestamp(Head(docs).timestamp)
    THEN <<Head(docs)>> \o TakeWhileStrictlyBefore(Tail(docs), timestamp)
    ELSE <<>>

\* _.takeWhile(docs, doc => timestamp.gte(doc.timestamp, 16))
RECURSIVE TakeWhileBefore(_, _)
TakeWhileBefore(docs, timestamp) ==
    IF docs = <<>> THEN <<>>
    ELSE IF timestamp >= ParseHexTimestamp(Head(docs).timestamp)
    THEN <<Head(docs)>> \o TakeWhileBefore(Tail(docs), timestamp)
    ELSE <<>>

getLastDocBeforeTimestamp(docs, timestamp) ==
    LET allBeforeTimestamp == TakeWhileBefore(docs, timestamp)
    IN IF Len(allBeforeTimestamp) > 0
       THEN Some(allBeforeTimestamp[Len(allBeforeTimestamp)])
       ELSE Null

\* the logs of one market and outcome, in the order of the store (block order)
DocsOf(docs, marketId, outcome) ==
    LET Match(d) == d.market = marketId /\ d.outcome = outcome
    IN SelectSeq(docs, Match)

\* the keys of a grouping by market and outcome
KeysOf(docs) ==
    {[market |-> docs[i].market, outcome |-> docs[i].outcome] : i \in 1..Len(docs)}

\* the keys in the order the positions are flattened: by market, then by outcome
RECURSIVE KeySeq(_)
KeySeq(keys) ==
    IF keys = {} THEN <<>>
    ELSE LET k == CHOOSE x \in keys :
                      \A y \in keys :
                          \/ x.market = y.market /\ x.outcome <= y.outcome
                          \/ x.market # y.market /\ x.market = "M1"
         IN <<k>> \o KeySeq(keys \ {k})

\* ParsedOrderEvent.where(...).between([.., `0x${startTime}`], [.., `0x${endTime}`],
\* true, true): the fills whose timestamp string lies between the two bounds
FillsBetween(fills, startTime, endTime) ==
    LET InRange(d) == /\ StringLte(HexTimestamp(startTime), d.timestamp)
                      /\ StringLte(d.timestamp, HexTimestamp(endTime))
    IN SelectSeq(fills, InRange)

\* MarketFinalized.where('market').anyOf(marketIds).and(log => ...)
FinalizedBetween(finalizations, marketIds, startTime, endTime) ==
    LET Kept(log) == /\ log.market \in marketIds
                     /\ StringLte(log.timestamp, HexTimestamp(endTime))
                     /\ StringLte(HexTimestamp(startTime), log.timestamp)
    IN SelectSeq(finalizations, Kept)

\* _.keyBy(marketFinalizedResults, 'market')[marketId]
FinalizedByMarket(marketFinalizedResults, marketId) ==
    LET at == {i \in 1..Len(marketFinalizedResults) :
                  marketFinalizedResults[i].market = marketId}
    IN IF at = {} THEN Null
       ELSE Some(marketFinalizedResults[CHOOSE i \in at : \A j \in at : j <= i])

\* const finalized = !!marketFinalizedByMarket[marketId] && timestamp.lte(bucketTimestamp)
BucketFinalized(marketId, bucketTimestamp, marketFinalizedResults) ==
    LET marketFinalized == FinalizedByMarket(marketFinalizedResults, marketId)
    IN /\ ~IsNull(marketFinalized)
       /\ ParseHexTimestamp(Val(marketFinalized).timestamp) <= bucketTimestamp

\* the price one market and outcome is valued at at one bucket; Null when the
\* outcome gets the zero record instead
BucketOutcomeValue(marketId, outcome, bucketTimestamp, ignoreFinalizedMarkets, profitLossOrders, orders, marketFinalizedResults) ==
    LET marketDoc == CHOOSE m \in MarketDocs : m.market = marketId
        outcomePLValues == DocsOf(profitLossOrders, marketId, outcome)
        latestOutcomePLValue == getLastDocBeforeTimestamp(outcomePLValues, bucketTimestamp)
        marketFinalized == FinalizedByMarket(marketFinalizedResults, marketId)
        finalized == BucketFinalized(marketId, bucketTimestamp, marketFinalizedResults)
        outcomeValues == DocsOf(orders, marketId, outcome)
        hasOutcomeValues == outcomeValues # <<>> \/ finalized
        last == getLastDocBeforeTimestamp(outcomeValues, bucketTimestamp)
    IN IF \/ IsNull(latestOutcomePLValue)
          \/ ~hasOutcomeValues
          \/ (ignoreFinalizedMarkets /\ finalized)
       THEN Null
       ELSE IF finalized
       THEN Some(BN(Val(marketFinalized).winningPayoutNumerators[outcome + 1]))
       ELSE IF ~IsNull(marketFinalized)
       THEN Some(BN(marketDoc.prices[1]))
       ELSE IF ~IsNull(last)
       THEN Some(BN(Val(last).price))
       ELSE Some(dividedBy(BN(Val(latestOutcomePLValue).avgPrice), BN(QUINTILLION)))

\* the position of one market and outcome at one bucket
BucketPosition(marketId, outcome, bucketTimestamp, ignoreFinalizedMarkets, profitLossOrders, orders, marketFinalizedResults, shareTokenBalances) ==
    LET marketDoc == CHOOSE m \in MarketDocs : m.market = marketId
        outcomePLValues == DocsOf(profitLossOrders, marketId, outcome)
        latestOutcomePLValue == getLastDocBeforeTimestamp(outcomePLValues, bucketTimestamp)
        finalized == BucketFinalized(marketId, bucketTimestamp, marketFinalizedResults)
        outcomeValue ==
            BucketOutcomeValue(marketId, outcome, bucketTimestamp, ignoreFinalizedMarkets,
                               profitLossOrders, orders, marketFinalizedResults)
    IN IF IsNull(outcomeValue)
       THEN UnvaluedPosition(bucketTimestamp)
       ELSE getTradingPositionFromProfitLossFrame(
                Val(latestOutcomePLValue), marketDoc, Val(outcomeValue), Null,
                bucketTimestamp,
                IF finalized THEN Some(shareTokenBalances) ELSE Null,
                finalized)

PLThrew(msg) == [status |-> "threw", series |-> <<>>, error |-> msg]

\* const endTime = params.endTime || now.toNumber()
PLEndTime(params, now) ==
    IF IsNull(params.endTime) \/ Val(params.endTime) = 0 THEN now
    ELSE Val(params.endTime)

\* bucketRangeByInterval(startTime, endTime, periodInterval), behind the startTime check
PLBucketRange(params, now) ==
    IF IsNull(params.startTime) \/ Val(params.startTime) = 0
    THEN Threw("'getProfitLoss' requires a 'startTime' param be provided")
    ELSE LET startTime == Val(params.startTime)
             endTime == PLEndTime(params, now)
             periodInterval ==
                 IF IsNull(params.periodInterval)
                 THEN Ceil(endTime - startTime, DEFAULT_NUMBER_OF_BUCKETS)
                 ELSE Val(params.periodInterval)
         IN bucketRangeByInterval(startTime, endTime, Some(periodInterval))

\* tradingPositionsByMarketAndOutcome of one bucket, as a list keyed by market and outcome
RECURSIVE tradingPositionsByMarketAndOutcome(_, _, _, _, _)
tradingPositionsByMarketAndOutcome(keys, bucketTimestamp, params, db, now) ==
    IF keys = <<>> THEN <<>>
    ELSE LET startTime == Val(params.startTime)
             endTime == PLEndTime(params, now)
             profitLossOrders == db.ProfitLossChanged
             marketIds == {k.market : k \in KeysOf(profitLossOrders)}
         IN <<[market |-> Head(keys).market,
               outcome |-> Head(keys).outcome,
               finalized |->
                   BucketFinalized(
                       Head(keys).market, bucketTimestamp,
                       FinalizedBetween(db.MarketFinalized, marketIds, startTime, endTime)),
               outcomeValue |->
                   BucketOutcomeValue(
                       Head(keys).market, Head(keys).outcome, bucketTimestamp,
                       params.ignoreFinalizedMarkets, profitLossOrders,
                       FillsBetween(db.ParsedOrderEvent, startTime, endTime),
                       FinalizedBetween(db.MarketFinalized, marketIds, startTime, endTime)),
               position |->
                   BucketPosition(
                       Head(keys).market, Head(keys).outcome, bucketTimestamp,
                       params.ignoreFinalizedMarkets, profitLossOrders,
                       FillsBetween(db.ParsedOrderEvent, startTime, endTime),
                       FinalizedBetween(db.MarketFinalized, marketIds, startTime, endTime),
                       db.ShareTokenBalanceChangedRollup)]>>
            \o tradingPositionsByMarketAndOutcome(Tail(keys), bucketTimestamp, params,
                                                  db, now)

\* _.map(buckets, bucketTimestamp => ...): per bucket, the positions that are summed
RECURSIVE PLTradingPositions(_, _, _, _)
PLTradingPositions(buckets, params, db, now) ==
    IF buckets = <<>> THEN <<>>
    ELSE <<[timestamp |-> Head(buckets),
            positions |-> tradingPositionsByMarketAndOutcome(
                              KeySeq(KeysOf(db.ProfitLossChanged)), Head(buckets),
                              params, db, now)]>>
         \o PLTradingPositions(Tail(buckets), params, db, now)

\* _.flattenDeep(_.map(_.values(tradingPositionsByMarketAndOutcome), _.values))
FlattenPositions(keyed) == [k \in 1..Len(keyed) |-> keyed[k].position]

\* what the call returns, given the positions of every bucket
getProfitLoss(params, now, perBucket) ==
    LET range == PLBucketRange(params, now)
    IN IF range.status = "threw" THEN PLThrew(range.error)
       ELSE [status |-> "returned",
             series |-> [b \in 1..Len(perBucket) |->
                            sumTradingPositions(FlattenPositions(perBucket[b].positions))],
             error |-> ""]

\* the account's position records: a long opened at instant 1, optionally closed
\* into a short at instant 10, optionally one in a second outcome at instant 3
PLFrame(outcome, timestamp, netPosition) ==
    [market |-> "M1", outcome |-> outcome, timestamp |-> HexTimestamp(timestamp),
     netPosition |-> netPosition, avgPrice |-> 2 * QUINTILLION,
     realizedProfit |-> 0, realizedCost |-> 0, frozenFunds |-> 0]

PLFill(outcome, timestamp, price) ==
    [market |-> "M1", outcome |-> outcome, timestamp |-> HexTimestamp(timestamp),
     price |-> price]

PLFinalization(timestamp) ==
    [market |-> "M1", timestamp |-> HexTimestamp(timestamp),
     winningPayoutNumerators |-> <<0, 5, 0>>]

PLStores ==
    [ProfitLossChanged : {<<>>,
                          <<PLFrame(1, 1, 2)>>,
                          <<PLFrame(1, 1, 2), PLFrame(1, 10, -1)>>,
                          <<PLFrame(1, 1, 2), PLFrame(2, 3, 2)>>},
     ParsedOrderEvent : {<<>>,
                         <<PLFill(1, 3, 3)>>,
                         <<PLFill(1, 3, 3), PLFill(2, 3, 1), PLFill(1, 10, 4)>>},
     MarketFinalized : {<<>>,
                        <<PLFinalization(1)>>,
                        <<PLFinalization(3)>>,
                        <<PLFinalization(4)>>,
                        <<PLFinalization(16)>>},
     ShareTokenBalanceChangedRollup : {ShareTokenBalances}]

\* params: a grid of short ranges (startTime missing, 0, inside and after the
\* range's end; endTime missing, so the chain's clock, or 4), and a long range
\* whose bounds differ in their number of hex digits
PLParams ==
    [startTime : {Null, Some(0), Some(2), Some(9)},
     endTime : {Null, Some(4)},
     periodInterval : {Null, Some(1), Some(23)},
     ignoreFinalizedMarkets : BOOLEAN]
    \cup [startTime : {Some(2)},
          endTime : {Some(48)},
          periodInterval : {Some(23)},
          ignoreFinalizedMarkets : BOOLEAN]

InitProfitLoss ==
    /\ op = "getProfitLoss"
    /\ plArgs \in [params : PLParams, db : PLStores, now : {6}]
    /\ plRet = Null
    /\ plTradingPositions = Null
    /\ IdleBucket /\ IdlePosition /\ IdleSum /\ IdleEscrow /\ IdleCall

CallGetProfitLoss ==
    /\ op = "getProfitLoss"
    /\ plRet = Null
    /\ plTradingPositions' =
           Some(PLTradingPositions(PLBucketRange(plArgs.params, plArgs.now).buckets,
                                   plArgs.params, plArgs.db, plArgs.now))
    /\ plRet' = Some(getProfitLoss(plArgs.params, plArgs.now, Val(plTradingPositions')))
    /\ UNCHANGED <<op, plArgs, varsBucket, varsPosition, varsSum, varsEscrow, varsCall>>

NextProfitLoss == CallGetProfitLoss

SpecProfitLoss == InitProfitLoss /\ [][NextProfitLoss]_vars

\* C5: in the series of getProfitLoss, for every market with a finalization record
\* and every bucket at or after that record's timestamp, wherever the timestamp lies
\* relative to [startTime, endTime], the position of every outcome of the market has
\* unrealized = 0 and unrealizedCost = 0.
C5_FinalizedUnrealizedZero ==
    (op = "getProfitLoss" /\ ~IsNull(plRet) /\ Val(plRet).status = "returned") =>
        \A b \in 1..Len(Val(plTradingPositions)) :
            \A f \in 1..Len(plArgs.db.MarketFinalized) :
                LET bucket == Val(plTradingPositions)[b]
                    log == plArgs.db.MarketFinalized[f]
                IN ParseHexTimestamp(log.timestamp) <= bucket.timestamp =>
                       \A k \in 1..Len(bucket.positions) :
                           bucket.positions[k].market = log.market =>
                               /\ bucket.positions[k].position.unrealized = ZERO_STR
                               /\ bucket.positions[k].position.unrealizedCost = ZERO_STR

\* the position records of one market and outcome at or before an instant
PLRecordsBefore(marketId, outcome, instant) ==
    LET Before(d) == /\ d.market = marketId /\ d.outcome = outcome
                     /\ ParseHexTimestamp(d.timestamp) <= instant
    IN SelectSeq(plArgs.db.ProfitLossChanged, Before)

\* the fills of one market and outcome at or before an instant
PLFillsBefore(marketId, outcome, instant) ==
    LET Before(d) == /\ d.market = marketId /\ d.outcome = outcome
                     /\ ParseHexTimestamp(d.timestamp) <= instant
    IN SelectSeq(plArgs.db.ParsedOrderEvent, Before)

PLReturned == op = "getProfitLoss" /\ ~IsNull(plRet) /\ Val(plRet).status = "returned"

\* C21: over the buckets of one series the valuation by finalization is a step: for
\* a market finalized at F, every outcome with a position record is valued at
\* winningPayoutNumerators[outcome] at every bucket at or after F whatever fills
\* exist, is not valued as finalized at any bucket before F, and once a bucket
\* values the market as finalized every later bucket does.  (Calls that ask to
\* ignore finalized markets are left aside.)
C21_FinalizationStep ==
    (PLReturned /\ ~plArgs.params.ignoreFinalizedMarkets) =>
        \A b \in 1..Len(Val(plTradingPositions)) :
            \A f \in 1..Len(plArgs.db.MarketFinalized) :
                LET bucket == Val(plTradingPositions)[b]
                    log == plArgs.db.MarketFinalized[f]
                    F == ParseHexTimestamp(log.timestamp)
                IN \A k \in 1..Len(bucket.positions) :
                       LET entry == bucket.positions[k]
                       IN (/\ entry.market = log.market
                           /\ PLRecordsBefore(entry.market, entry.outcome,
                                              bucket.timestamp) # <<>>) =>
                              /\ F <= bucket.timestamp =>
                                     /\ entry.finalized
                                     /\ entry.outcomeValue =
                                            Some(BN(log.winningPayoutNumerators[
                                                        entry.outcome + 1]))
                              /\ F > bucket.timestamp => ~entry.finalized
                              /\ entry.finalized =>
                                     \A c \in b..Len(Val(plTradingPositions)) :
                                         Val(plTradingPositions)[c].positions[k].finalized

\* C22: at a bucket where the market is not valued as finalized (it has no
\* finalization record, or one later than the bucket), an outcome that is valued is
\* valued at the price of its latest fill at or before the bucket and, when it has
\* no such fill, at the average price of its position record.
C22_FillValuation ==
    PLReturned =>
        \A b \in 1..Len(Val(plTradingPositions)) :
            LET bucket == Val(plTradingPositions)[b]
            IN \A k \in 1..Len(bucket.positions) :
                   LET entry == bucket.positions[k]
                       records == PLRecordsBefore(entry.market, entry.outcome,
                                                  bucket.timestamp)
                       fills == PLFillsBefore(entry.market, entry.outcome,
                                              bucket.timestamp)
                       notFinalized ==
                           \A f \in 1..Len(plArgs.db.MarketFinalized) :
                               plArgs.db.MarketFinalized[f].market = entry.market =>
                                   ParseHexTimestamp(
                                       plArgs.db.MarketFinalized[f].timestamp)
                                       > bucket.timestamp
                   IN (notFinalized /\ records # <<>> /\ ~IsNull(entry.outcomeValue)) =>
                          entry.outcomeValue =
                              IF fills # <<>>
                              THEN Some(BN(fills[Len(fills)].price))
                              ELSE Some(dividedBy(BN(records[Len(records)].avgPrice),
                                                  BN(QUINTILLION)))

\* the entries of a bucket that have a valuation source: a fill of the outcome or
\* a finalization record of the market
PLWithValuationSource(positions) ==
    LET HasSource(entry) ==
            \/ \E i \in 1..Len(plArgs.db.ParsedOrderEvent) :
                   /\ plArgs.db.ParsedOrderEvent[i].market = entry.market
                   /\ plArgs.db.ParsedOrderEvent[i].outcome = entry.outcome
            \/ \E f \in 1..Len(plArgs.db.MarketFinalized) :
                   plArgs.db.MarketFinalized[f].market = entry.market
    IN SelectSeq(positions, HasSource)

\* C23: an outcome with a position record but neither a fill nor a finalization
\* record is not fed to the bucket's rollup: every rollup of the series equals the
\* rollup of the bucket's other positions, field by field.
C23_UnvaluedLeftOut ==
    PLReturned =>
        \A b \in 1..Len(Val(plTradingPositions)) :
            Val(plRet).series[b] =
                sumTradingPositions(
                    FlattenPositions(
                        PLWithValuationSource(Val(plTradingPositions)[b].positions)))

-----------------------------------------------------------------------------
(* getFullMarketPositionLoss *)
(* The share balances are keyed by market and by the outcome's hex string  *)
(* (`0x0${index}`); a market or an outcome without a balance row has no   *)
(* key.                                                                    *)

\* `0x0${index}`
OutcomeKey(index) == <<"0x00", "0x01", "0x02">>[index + 1]

\* _.reduce(payoutNumerators, (sum, outcome, index) => ...) from position `index` on
RECURSIVE TotalPositionValue(_, _, _, _)
TotalPositionValue(payoutNumerators, outcomeBalance, index, sum) ==
    IF index >= Len(payoutNumerators) THEN sum
    ELSE LET key == OutcomeKey(index)
             balance == IF key \in DOMAIN outcomeBalance /\ outcomeBalance[key].balance # 0
                        THEN BN(outcomeBalance[key].balance)
                        ELSE BN(0)
         IN TotalPositionValue(payoutNumerators, outcomeBalance, index + 1,
                               plus(sum, multipliedBy(balance,
                                                      BN(payoutNumerators[index + 1]))))

LossThrew(msg) == [status |-> "threw", markets |-> <<>>, error |-> msg]

\* _.reduce(finalizedMarketIds, (result, marketId) => ..., []) from the given result on
RECURSIVE FullLossReduce(_, _, _, _)
FullLossReduce(finalizedMarketIds, markets, shareTokenBalancesByMarketAndOutcome, result) ==
    IF finalizedMarketIds = <<>>
    THEN [status |-> "returned", markets |-> result, error |-> ""]
    ELSE LET marketId == Head(finalizedMarketIds)
             payoutNumerators == markets[marketId].winningPayoutNumerators
         IN IF /\ marketId \notin DOMAIN shareTokenBalancesByMarketAndOutcome
               /\ payoutNumerators # <<>>
            THEN LossThrew("TypeError: Cannot read property '0x00' of undefined")
            ELSE LET totalPositionValue ==
                         IF payoutNumerators = <<>> THEN BN(0)
                         ELSE TotalPositionValue(
                                  payoutNumerators,
                                  shareTokenBalancesByMarketAndOutcome[marketId],
                                  0, BN(0))
                 IN FullLossReduce(
                        Tail(finalizedMarketIds), markets,
                        shareTokenBalancesByMarketAndOutcome,
                        IF gt(totalPositionValue, BN(0)) THEN result
                        ELSE Append(result, marketId))

\* db.MarketFinalized.where('market').anyOf(ids): the logs of those markets
FinalizedAmong(finalizations, marketIds) ==
    LET Referenced(log) == log.market \in marketIds
    IN SelectSeq(finalizations, Referenced)

getFullMarketPositionLoss(db, allProfitLossResults, shareTokenBalancesByMarketAndOutcome) ==
    LET marketFinalizedResults ==
            FinalizedAmong(db.MarketFinalized,
                           {allProfitLossResults[i].market :
                                i \in 1..Len(allProfitLossResults)})
        finalizedMarketIds ==
            [i \in 1..Len(marketFinalizedResults) |-> marketFinalizedResults[i].market]
    IN FullLossReduce(finalizedMarketIds, db.Markets,
                      shareTokenBalancesByMarketAndOutcome, <<>>)

\* two binary markets; the account has position records in either, both or none
LossMarketIds == {"M1", "M2"}

LossPositionRecords ==
    {<<>>, <<[market |-> "M1"]>>, <<[market |-> "M2"]>>,
     <<[market |-> "M1"], [market |-> "M2"]>>, <<[market |-> "M1"], [market |-> "M1"]>>}

LossFinalizations ==
    {<<>>, <<[market |-> "M1"]>>, <<[market |-> "M2"]>>,
     <<[market |-> "M1"], [market |-> "M2"]>>}

LossMarketDocs ==
    [LossMarketIds -> [winningPayoutNumerators : {<<0, 1>>, <<1, 0>>}]]

\* balance rows: per market with rows, per outcome with a row, 0, 3 or 5 shares
LossOutcomeBalances ==
    UNION {[keys -> [balance : {0, 3, 5}]] : keys \in SUBSET {"0x00", "0x01"}}

LossShareBalances ==
    UNION {[ms -> LossOutcomeBalances] : ms \in SUBSET LossMarketIds}

InitFullLoss ==
    /\ op = "getFullMarketPositionLoss"
    /\ callArgs \in [db : [MarketFinalized : LossFinalizations, Markets : LossMarketDocs],
                     allProfitLossResults : LossPositionRecords,
                     shareTokenBalancesByMarketAndOutcome : LossShareBalances]
    /\ callRet = Null
    /\ IdleBucket /\ IdlePosition /\ IdleSum /\ IdleEscrow /\ IdleProfitLoss

CallGetFullMarketPositionLoss ==
    /\ op = "getFullMarketPositionLoss"
    /\ callRet = Null
    /\ callRet' = Some(getFullMarketPositionLoss(
                           callArgs.db, callArgs.allProfitLossResults,
                           callArgs.shareTokenBalancesByMarketAndOutcome))
    /\ UNCHANGED <<op, callArgs, varsBucket, varsPosition, varsSum, varsEscrow,
                 varsProfitLoss>>

NextFullLoss == CallGetFullMarketPositionLoss

SpecFullLoss == InitFullLoss /\ [][NextFullLoss]_vars

\* the balance the account holds of an outcome of a market, 0 without a row
LossBalance(marketId, index) ==
    LET all == callArgs.shareTokenBalancesByMarketAndOutcome
    IN IF marketId \in DOMAIN all /\ OutcomeKey(index) \in DOMAIN all[marketId]
       THEN all[marketId][OutcomeKey(index)].balance
       ELSE 0

\* the finalized markets the position records refer to
LossReferencedFinalized ==
    {callArgs.allProfitLossResults[i].market :
         i \in 1..Len(callArgs.allProfitLossResults)}
    \cap {callArgs.db.MarketFinalized[i].market :
              i \in 1..Len(callArgs.db.MarketFinalized)}

\* C11: the call returns, without failing, exactly the referenced finalized markets
\* whose sum over the outcomes of balance * winningPayoutNumerator is 0, a missing
\* outcome row or a market without any balance row counting as balance 0.
C11_FullLossMarkets ==
    (op = "getFullMarketPositionLoss" /\ callRet # Null) =>
        /\ Val(callRet).status = "returned"
        /\ {Val(callRet).markets[i] : i \in 1..Len(Val(callRet).markets)} =
               {m \in LossReferencedFinalized :
                    LET n == callArgs.db.Markets[m].winningPayoutNumerators
                    IN LossBalance(m, 0) * n[1] + LossBalance(m, 1) * n[2] = 0}

-----------------------------------------------------------------------------
(* reduceMarketAndOutcomeDocsToOnlyLatest, ...ToOnlyPriorLatest *)
(* Both map a reducer over the groups of a market -> outcome -> logs       *)
(* dictionary; the reducers are modelled on one group.  undefined is Null. *)

\* (faulty variant) the comparator looking at the block number only
LatestIterateeByBlock(latestResult, outcomeResult) ==
    IF \/ IsNull(latestResult)
       \/ Val(latestResult).blockNumber < outcomeResult.blockNumber
    THEN Some(outcomeResult)
    ELSE latestResult

\* (latestResult, outcomeResult) => ... of reduceMarketAndOutcomeDocsToOnlyLatest
LatestIteratee(latestResult, outcomeResult) ==
    IF \/ IsNull(latestResult)
       \/ Val(latestResult).blockNumber < outcomeResult.blockNumber
       \/ (/\ Val(latestResult).blockNumber = outcomeResult.blockNumber
           /\ Val(latestResult).logIndex < outcomeResult.logIndex)
    THEN Some(outcomeResult)
    ELSE latestResult

RECURSIVE LatestReduce(_, _)
LatestReduce(outcomeResults, latestResult) ==
    IF outcomeResults = <<>> THEN latestResult
    ELSE LatestReduce(Tail(outcomeResults),
                      LatestIteratee(latestResult, Head(outcomeResults)))

\* _.reduce(outcomeResults, ..., outcomeResults[0])
OnlyLatest(outcomeResults) ==
    LatestReduce(outcomeResults,
                 IF outcomeResults = <<>> THEN Null ELSE Some(outcomeResults[1]))

\* (priorResult, outcomeResult) => ... of reduceMarketAndOutcomeDocsToOnlyPriorLatest
PriorIteratee(priorResult, outcomeResult, endResult) ==
    IF endResult.blockHash = outcomeResult.blockHash THEN priorResult
    ELSE IF IsNull(priorResult) THEN Some(outcomeResult)
    ELSE LET prior == Val(priorResult)
             r1 == IF prior.blockNumber < outcomeResult.blockNumber
                   THEN outcomeResult ELSE prior
             r2 == IF /\ prior.blockNumber = outcomeResult.blockNumber
                      /\ outcomeResult.logIndex > prior.logIndex
                   THEN outcomeResult ELSE r1
             r3 == IF endResult.blockNumber < r2.blockNumber THEN prior ELSE r2
             r4 == IF /\ endResult.blockNumber = r3.blockNumber
                      /\ r3.logIndex > endResult.logIndex
                   THEN prior ELSE r3
         IN Some(r4)

RECURSIVE PriorReduce(_, _, _)
PriorReduce(outcomeResults, priorResult, endResult) ==
    IF outcomeResults = <<>> THEN priorResult
    ELSE PriorReduce(Tail(outcomeResults),
                     PriorIteratee(priorResult, Head(outcomeResults), endResult),
                     endResult)

\* _.reduce(outcomeResults, ..., outcomeResults[0]) with endResult = latest[market][outcome]
OnlyPriorLatest(outcomeResults, endResult) ==
    PriorReduce(outcomeResults,
                IF outcomeResults = <<>> THEN Null ELSE Some(outcomeResults[1]),
                endResult)

MaxBlock == 3      \* largest block number of a log
MaxLogIndex == 1   \* largest log index inside a block
MaxDocs == 3       \* longest sequence of logs of one market and outcome

\* the logs of one block share its hash
BlockHash(blockNumber) == <<"0xb1", "0xb2", "0xb3", "0xb4", "0xb5">>[blockNumber]

LogRecords ==
    {[blockNumber |-> b, logIndex |-> i, blockHash |-> BlockHash(b)] :
         b \in 1..MaxBlock, i \in 0..MaxLogIndex}

\* sequences of distinct logs, in any order
LogSequences ==
    {q \in UNION {[1..n -> LogRecords] : n \in 0..MaxDocs} :
         \A i, j \in 1..Len(q) : i # j => q[i] # q[j]}

InitLatest ==
    /\ op = "reduceMarketAndOutcomeDocs"
    /\ callArgs \in LogSequences
    /\ callRet = Null
    /\ IdleBucket /\ IdlePosition /\ IdleSum /\ IdleEscrow /\ IdleProfitLoss

\* the two reductions, as getUserTradingPositions chains them
CallReduceToLatestAndPrior ==
    /\ op = "reduceMarketAndOutcomeDocs"
    /\ callRet = Null
    /\ callRet' = Some([latest |-> OnlyLatest(callArgs),
                        prior |-> IF callArgs = <<>> THEN Null
                                  ELSE OnlyPriorLatest(callArgs,
                                                       Val(OnlyLatest(callArgs)))])
    /\ UNCHANGED <<op, callArgs, varsBucket, varsPosition, varsSum, varsEscrow,
                 varsProfitLoss>>

NextLatest == CallReduceToLatestAndPrior

SpecLatest == InitLatest /\ [][NextLatest]_vars

\* (blockNumber, logIndex) of a comes before that of b, or is the same
KeyLte(a, b) ==
    \/ a.blockNumber < b.blockNumber
    \/ a.blockNumber = b.blockNumber /\ a.logIndex <= b.logIndex

DocsSorted(docs) == \A i, j \in 1..Len(docs) : i < j => KeyLte(docs[i], docs[j])

DocSet(docs) == {docs[i] : i \in 1..Len(docs)}

\* C12: for a non-empty sequence, in whatever order, the latest record is the one
\* with the maximal (blockNumber, logIndex); for an empty sequence it is undefined.
C12_LatestOverall ==
    (op = "reduceMarketAndOutcomeDocs" /\ callRet # Null) =>
        LET latest == Val(callRet).latest
        IN IF callArgs = <<>> THEN IsNull(latest)
           ELSE /\ ~IsNull(latest)
                /\ Val(latest) \in DocSet(callArgs)
                /\ \A d \in DocSet(callArgs) : KeyLte(d, Val(latest))

\* an unsorted sequence whose latest record is neither first nor last, with the
\* spec's three keys (1,0), (1,1), (2,0)
C12_Witness ==
    /\ op = "reduceMarketAndOutcomeDocs"
    /\ callRet # Null
    /\ Len(callArgs) = 3
    /\ [blockNumber |-> 1, logIndex |-> 0, blockHash |-> BlockHash(1)] \in DocSet(callArgs)
    /\ [blockNumber |-> 1, logIndex |-> 1, blockHash |-> BlockHash(1)] \in DocSet(callArgs)
    /\ callArgs[2] = [blockNumber |-> 2, logIndex |-> 0, blockHash |-> BlockHash(2)]
    /\ Val(callRet).latest = Some(callArgs[2])

\* the records other than L that are older than L's block
OlderThanLatest(docs, L) ==
    {d \in DocSet(docs) : d # L /\ d.blockNumber < L.blockNumber}

\* C13: for a sorted sequence with latest record L, the prior record is the one with
\* the greatest (blockNumber, logIndex) among the records other than L that are
\* older than L's block; it is undefined when there is none (only L, or only
\* records of L's block), and it is never L itself.
C13_PriorToLatest ==
    (op = "reduceMarketAndOutcomeDocs" /\ callRet # Null
        /\ callArgs # <<>> /\ DocsSorted(callArgs)) =>
        LET L == Val(Val(callRet).latest)
            prior == Val(callRet).prior
            older == OlderThanLatest(callArgs, L)
        IN /\ prior # Some(L)
           /\ IF older = {} THEN IsNull(prior)
              ELSE /\ ~IsNull(prior)
                   /\ Val(prior) \in older
                   /\ \A d \in older : KeyLte(d, Val(prior))

-----------------------------------------------------------------------------
(* Parameter guards of the public getters *)
(* Each getter is followed from its entry to the first query it sends to   *)
(* the store; storeQueries lists the queries sent, with their key.         *)

\* JavaScript's !x for an optional string: undefined and '' are falsy
Falsy(x) == IsNull(x) \/ Val(x) = ""

GuardThrew(msg) == [status |-> "threw", error |-> msg, storeQueries |-> <<>>]

Querying(store, key) ==
    [status |-> "querying", error |-> "",
     storeQueries |-> <<[store |-> store, key |-> key]>>]

getUserAccountData(params) ==
    IF Falsy(params.universe) \/ Falsy(params.account)
    THEN GuardThrew("'getUserAccountData' requires a 'universe' and 'account' param be provided")
    ELSE Querying("Markets.getMarkets", <<params.account, params.universe>>)

getUserPositionsPlus(params) ==
    IF Falsy(params.universe) \/ Falsy(params.account)
    THEN GuardThrew("'getUserAccountData' requires a 'universe' and 'account' param be provided")
    ELSE Querying("OnChainTrading.getTradingHistory", <<params.account, params.universe>>)

getUserOpenOrders(params) ==
    IF Falsy(params.account) \/ Falsy(params.universe)
    THEN GuardThrew("'getUserOpenOrders' requires 'account' and 'universe' params to be provided")
    ELSE Querying("OnChainTrading.getOpenOrders", <<params.account, params.universe>>)

getUserTradingPositions(params) ==
    IF Falsy(params.universe) /\ Falsy(params.marketId)
    THEN GuardThrew("'getUserTradingPositions' requires a 'universe' or 'marketId' param be provided")
    ELSE Querying("ProfitLossChanged.account", <<params.account>>)

getTotalOnChainFrozenFundsGuard(params) ==
    IF Falsy(params.universe) /\ Falsy(params.account)
    THEN GuardThrew("'getTotalOnChainFrozenFunds' requires a 'universe' or 'account' param be provided")
    ELSE Querying("ProfitLossChanged.account", <<params.account>>)

Getters ==
    {"getUserAccountData", "getUserPositionsPlus", "getUserOpenOrders",
     "getUserTradingPositions", "getTotalOnChainFrozenFunds"}

\* an identifying field: undefined, the empty string, or one of two identifiers
GetterParams ==
    [account : {Null, Some(""), Some("0xA1"), Some("0xA2")},
     universe : {Null, Some(""), Some("0xU1")},
     marketId : {Null, Some(""), Some("M1")}]

InitGuard ==
    /\ op \in Getters
    /\ callArgs \in GetterParams
    /\ callRet = Null
    /\ IdleBucket /\ IdlePosition /\ IdleSum /\ IdleEscrow /\ IdleProfitLoss

GuardFrame ==
    UNCHANGED <<op, callArgs, varsBucket, varsPosition, varsSum, varsEscrow,
                varsProfitLoss>>

CallGetUserAccountData ==
    /\ op = "getUserAccountData" /\ callRet = Null
    /\ callRet' = Some(getUserAccountData(callArgs))
    /\ GuardFrame

CallGetUserPositionsPlus ==
    /\ op = "getUserPositionsPlus" /\ callRet = Null
    /\ callRet' = Some(getUserPositionsPlus(callArgs))
    /\ GuardFrame

CallGetUserOpenOrders ==
    /\ op = "getUserOpenOrders" /\ callRet = Null
    /\ callRet' = Some(getUserOpenOrders(callArgs))
    /\ GuardFrame

CallGetUserTradingPositions ==
    /\ op = "getUserTradingPositions" /\ callRet = Null
    /\ callRet' = Some(getUserTradingPositions(callArgs))
    /\ GuardFrame

CallGetTotalOnChainFrozenFundsGuard ==
    /\ op = "getTotalOnChainFrozenFunds" /\ callRet = Null
    /\ callRet' = Some(getTotalOnChainFrozenFundsGuard(callArgs))
    /\ GuardFrame

NextGuard ==
    \/ CallGetUserAccountData
    \/ CallGetUserPositionsPlus
    \/ CallGetUserOpenOrders
    \/ CallGetUserTradingPositions
    \/ CallGetTotalOnChainFrozenFundsGuard

SpecGuard == InitGuard /\ [][NextGuard]_vars

\* the call is rejected with no store query sent
Rejected == Val(callRet).status = "threw" /\ Val(callRet).storeQueries = <<>>

\* C14: a getter rejects before any store query when a mandatory identifying field
\* is missing: account or universe for getUserAccountData, getUserPositionsPlus,
\* getUserOpenOrders and getTotalOnChainFrozenFunds; both universe and marketId for
\* getUserTradingPositions.
C14_MissingParameter ==
    (op \in Getters /\ callRet # Null) =>
        /\ (op \in {"getUserAccountData", "getUserPositionsPlus", "getUserOpenOrders",
                    "getTotalOnChainFrozenFunds"}
              /\ (IsNull(callArgs.account) \/ IsNull(callArgs.universe))) => Rejected
        /\ (op = "getUserTradingPositions"
              /\ IsNull(callArgs.universe) /\ IsNull(callArgs.marketId)) => Rejected

-----------------------------------------------------------------------------
(* groupDocumentsByMarketAndOutcome *)
(* The result is a nested mapping market -> outcome -> logs; a key exists   *)
(* only for a market, and an outcome of it, that some log carries.          *)

\* _.groupBy(docs, field): the values of the field met, each with its logs in input order
GroupBy(docs, field) ==
    [v \in {docs[i][field] : i \in 1..Len(docs)} |->
        LET Has(d) == d[field] = v IN SelectSeq(docs, Has)]

\* (faulty variant) the position of a log among sorted ones, by block number alone
RECURSIVE InsertByBlock(_, _)
InsertByBlock(sorted, doc) ==
    IF sorted = <<>> THEN <<doc>>
    ELSE IF doc.blockNumber < Head(sorted).blockNumber
         THEN <<doc>> \o sorted
         ELSE <<Head(sorted)>> \o InsertByBlock(Tail(sorted), doc)

\* the position of a log among sorted ones: behind every log whose
\* (blockNumber, logIndex) is not greater than its own
RECURSIVE InsertByBlockAndLog(_, _)
InsertByBlockAndLog(sorted, doc) ==
    IF sorted = <<>> THEN <<doc>>
    ELSE IF \/ doc.blockNumber < Head(sorted).blockNumber
            \/ (/\ doc.blockNumber = Head(sorted).blockNumber
                /\ doc.logIndex < Head(sorted).logIndex)
         THEN <<doc>> \o sorted
         ELSE <<Head(sorted)>> \o InsertByBlockAndLog(Tail(sorted), doc)

\* _.sortBy(outcomeResults, ['blockNumber', 'logIndex']): a stable sort
RECURSIVE SortByBlockAndLog(_, _)
SortByBlockAndLog(outcomeResults, sorted) ==
    IF outcomeResults = <<>> THEN sorted
    ELSE SortByBlockAndLog(Tail(outcomeResults),
                           InsertByBlockAndLog(sorted, Head(outcomeResults)))

groupDocumentsByMarketAndOutcome(docs, outcomeField) ==
    LET byMarket == GroupBy(docs, "market")
    IN [market \in DOMAIN byMarket |->
           LET outcomesInMarket == GroupBy(byMarket[market], outcomeField)
           IN [outcome \in DOMAIN outcomesInMarket |->
                  SortByBlockAndLog(outcomesInMarket[outcome], <<>>)]]

MaxGroupDocs == 3  \* longest list of logs handed to the grouping

\* logs of two markets; two logs of market M1, outcome 0x00 share block and log index
GroupLogs ==
    {d \in [market : {"M1", "M2"}, outcome : {"0x00", "0x01"},
            blockNumber : {1, 2}, logIndex : {0, 1},
            transactionHash : {"0xt1", "0xt2"}] :
        /\ d.blockNumber = 2 => d.logIndex = 0
        /\ d.transactionHash = "0xt2" =>
              (d.market = "M1" /\ d.outcome = "0x00" /\ d.blockNumber = 1 /\ d.logIndex = 1)
        /\ d.market = "M2" => (d.outcome = "0x00" /\ d.logIndex = 0)}

InitGroup ==
    /\ op = "groupDocumentsByMarketAndOutcome"
    /\ callArgs \in UNION {[1..n -> GroupLogs] : n \in 0..MaxGroupDocs}
    /\ callRet = Null
    /\ IdleBucket /\ IdlePosition /\ IdleSum /\ IdleEscrow /\ IdleProfitLoss

CallGroupDocumentsByMarketAndOutcome ==
    /\ op = "groupDocumentsByMarketAndOutcome"
    /\ callRet = Null
    /\ callRet' = Some(groupDocumentsByMarketAndOutcome(callArgs, "outcome"))
    /\ UNCHANGED <<op, callArgs, varsBucket, varsPosition, varsSum, varsEscrow,
                 varsProfitLoss>>

NextGroup == CallGroupDocumentsByMarketAndOutcome

SpecGroup == InitGroup /\ [][NextGroup]_vars

\* how often a log occurs in a sequence
Occurrences(docs, d) == Cardinality({i \in 1..Len(docs) : docs[i] = d})

\* the logs of a sequence with the given market, outcome and sort key, in order
SameKeyIn(docs, d) ==
    LET Same(x) == /\ x.market = d.market /\ x.outcome = d.outcome
                   /\ x.blockNumber = d.blockNumber /\ x.logIndex = d.logIndex
    IN SelectSeq(docs, Same)

\* C20: the grouping partitions its input: a log is found in the group of its own
\* market and outcome as often as in the input and in no other group, no group is
\* empty, every group is sorted ascending by (blockNumber, logIndex), and logs with
\* equal keys keep their input order.
C20_GroupPartition ==
    (op = "groupDocumentsByMarketAndOutcome" /\ callRet # Null) =>
        LET grouped == Val(callRet)
        IN /\ \A d \in DocSet(callArgs) :
                 /\ d.market \in DOMAIN grouped
                 /\ d.outcome \in DOMAIN grouped[d.market]
                 /\ Occurrences(grouped[d.market][d.outcome], d) = Occurrences(callArgs, d)
           /\ \A m \in DOMAIN grouped :
                 /\ DOMAIN grouped[m] # {}
                 /\ \A o \in DOMAIN grouped[m] :
                       LET group == grouped[m][o]
                       IN /\ group # <<>>
                          /\ \A i \in 1..Len(group) :
                                /\ group[i].market = m /\ group[i].outcome = o
                                /\ group[i] \in DocSet(callArgs)
                                /\ SameKeyIn(group, group[i]) = SameKeyIn(callArgs, group[i])
                          /\ DocsSorted(group)

\* three logs of one market and outcome handed over latest first, two of them with
\* the same block and log index: the group is sorted and the two keep their order
C20_Witness ==
    /\ op = "groupDocumentsByMarketAndOutcome"
    /\ callRet # Null
    /\ Len(callArgs) = 3
    /\ callArgs[1].blockNumber = 2
    /\ callArgs[2].blockNumber = 1 /\ callArgs[2].transactionHash = "0xt2"
    /\ callArgs[3].blockNumber = 1 /\ callArgs[3].logIndex = 1
    /\ callArgs[3].transactionHash = "0xt1"
    /\ \A i \in 1..3 : callArgs[i].market = "M1" /\ callArgs[i].outcome = "0x00"
    /\ Val(callRet)["M1"]["0x00"] = <<callArgs[2], callArgs[3], callArgs[1]>>

-----------------------------------------------------------------------------
(* getLastDocBeforeTimestamp, called on the logs of one market and outcome *)

\* the seconds the logs are stamped with, and the instants asked for
LastDocTimes == {9, 10, 17}
LastDocInstants == {0, 9, 10, 16, 17, 20}

LastDocLogs ==
    {d \in [blockNumber : {1, 2}, logIndex : {0, 1},
            timestamp : {HexTimestamp(t) : t \in LastDocTimes}] :
        d.blockNumber = 2 => d.logIndex = 0}

InitLastDoc ==
    /\ op = "getLastDocBeforeTimestamp"
    /\ callArgs \in [docs : UNION {[1..n -> LastDocLogs] : n \in 0..MaxDocs},
                     timestamp : LastDocInstants]
    /\ callRet = Null
    /\ IdleBucket /\ IdlePosition /\ IdleSum /\ IdleEscrow /\ IdleProfitLoss

CallGetLastDocBeforeTimestamp ==
    /\ op = "getLastDocBeforeTimestamp"
    /\ callRet = Null
    /\ callRet' = Some(getLastDocBeforeTimestamp(callArgs.docs, callArgs.timestamp))
    /\ UNCHANGED <<op, callArgs, varsBucket, varsPosition, varsSum, varsEscrow,
                 varsProfitLoss>>

NextLastDoc == CallGetLastDocBeforeTimestamp

SpecLastDoc == InitLastDoc /\ [][NextLastDoc]_vars

\* the seconds a log is stamped with
SecondsOf(d) == ParseHexTimestamp(d.timestamp)

\* sorted by (blockNumber, logIndex), with timestamps that never decrease
TimeMonotonic(docs) ==
    /\ DocsSorted(docs)
    /\ \A i, j \in 1..Len(docs) : i < j => SecondsOf(docs[i]) <= SecondsOf(docs[j])

\* the length of the longest prefix whose timestamps are <= T
LongestPrefixBefore(docs, T) ==
    CHOOSE n \in 0..Len(docs) :
        /\ \A i \in 1..n : SecondsOf(docs[i]) <= T
        /\ n < Len(docs) => SecondsOf(docs[n + 1]) > T

\* C19: for a sequence sorted by (blockNumber, logIndex) with non-decreasing
\* timestamps and an instant T, the call returns the last log of the longest prefix
\* whose timestamps are <= T, which has the greatest (blockNumber, logIndex) among
\* the logs with timestamp <= T; it returns undefined exactly when the sequence is
\* empty or its first log has a timestamp > T.
C19_LastDocBefore ==
    (op = "getLastDocBeforeTimestamp" /\ callRet # Null /\ TimeMonotonic(callArgs.docs)) =>
        LET docs == callArgs.docs
            T == callArgs.timestamp
            n == LongestPrefixBefore(docs, T)
            ret == Val(callRet)
        IN /\ IsNull(ret) <=> (docs = <<>> \/ SecondsOf(docs[1]) > T)
           /\ n = 0 <=> IsNull(ret)
           /\ n > 0 =>
                 /\ ret = Some(docs[n])
                 /\ SecondsOf(Val(ret)) <= T
                 /\ \A d \in DocSet(docs) : SecondsOf(d) <= T => KeyLte(d, Val(ret))

\* logs stamped 0x9, 0xa and 0x11 asked for instant 16: the second one is returned
C19_Witness ==
    /\ op = "getLastDocBeforeTimestamp"
    /\ callRet # Null
    /\ TimeMonotonic(callArgs.docs)
    /\ Len(callArgs.docs) = 3
    /\ callArgs.docs[1].timestamp = <<"0", "x", "9">>
    /\ callArgs.docs[2].timestamp = <<"0", "x", "a">>
    /\ callArgs.docs[3].timestamp = <<"0", "x", "1", "1">>
    /\ callArgs.docs[1].blockNumber = callArgs.docs[2].blockNumber
    /\ callArgs.timestamp = 16
    /\ Val(callRet) = Some(callArgs.docs[2])

-----------------------------------------------------------------------------
(* getTotalOnChainFrozenFunds *)
(* Amounts are integers in on-chain units.  The total of the validity bonds *)
(* comes from a contract call and is an input.  Calls with exactly one of   *)
(* account and universe missing are followed in the guard section.          *)

\* the distinct values of a field, in the order the logs first show them: the key
\* order of the object _.groupBy builds
RECURSIVE KeyOrder(_, _, _)
KeyOrder(docs, field, seen) ==
    IF docs = <<>> THEN <<>>
    ELSE IF Head(docs)[field] \in seen THEN KeyOrder(Tail(docs), field, seen)
    ELSE <<Head(docs)[field]>>
         \o KeyOrder(Tail(docs), field, seen \cup {Head(docs)[field]})

reduceMarketAndOutcomeDocsToOnlyLatest(docs) ==
    [market \in DOMAIN docs |->
        [outcome \in DOMAIN docs[market] |-> Val(OnlyLatest(docs[market][outcome]))]]

\* _.flatten(_.values(_.mapValues(latest, _.values))) over the given markets
RECURSIVE FlattenLatest(_, _, _)
FlattenLatest(latest, docs, marketIds) ==
    IF marketIds = <<>> THEN <<>>
    ELSE LET market == Head(marketIds)
             InMarket(d) == d.market = market
             outcomes == KeyOrder(SelectSeq(docs, InMarket), "outcome", {})
         IN [i \in 1..Len(outcomes) |-> latest[market][outcomes[i]]]
            \o FlattenLatest(latest, docs, Tail(marketIds))

\* db.ProfitLossChanged.where('account').equals(account).and(universe filter)
FrozenProfitLossRecords(params, db) ==
    LET Mine(log) == /\ log.account = Val(params.account)
                     /\ (~Falsy(params.universe) => log.universe = Val(params.universe))
    IN SelectSeq(db.ProfitLossChanged, Mine)

\* allProfitLossResults: the latest log of every market and outcome of the account
FrozenPositionResults(params, db) ==
    LET profitLossRecords == FrozenProfitLossRecords(params, db)
        latest == reduceMarketAndOutcomeDocsToOnlyLatest(
                      groupDocumentsByMarketAndOutcome(profitLossRecords, "outcome"))
    IN FlattenLatest(latest, profitLossRecords, KeyOrder(profitLossRecords, "market", {}))

\* _.mapValues(_.groupBy(rows, 'market'), rows => _.keyBy(rows, 'outcome'))
FrozenShareBalances(params, db) ==
    LET Mine(row) == /\ row.universe = Val(params.universe)
                     /\ row.account = Val(params.account)
        shareTokenBalances == SelectSeq(db.ShareTokenBalanceChangedRollup, Mine)
        byMarket == GroupBy(shareTokenBalances, "market")
    IN [market \in DOMAIN byMarket |->
           LET byOutcome == GroupBy(byMarket[market], "outcome")
           IN [outcome \in DOMAIN byOutcome |->
                  byOutcome[outcome][Len(byOutcome[outcome])]]]

\* (faulty variant) the sum taking the positions of full-loss markets as well
RECURSIVE FrozenReduceKeepingLosses(_, _, _)
FrozenReduceKeepingLosses(allProfitLossResults, fullTotalLossMarketsPositions, value) ==
    IF allProfitLossResults = <<>> THEN value
    ELSE FrozenReduceKeepingLosses(
             Tail(allProfitLossResults), fullTotalLossMarketsPositions,
             plus(value, BN(Head(allProfitLossResults).frozenFunds)))

\* _.reduce(allProfitLossResults, (value, tradingPosition) => ..., value)
RECURSIVE FrozenReduce(_, _, _)
FrozenReduce(allProfitLossResults, fullTotalLossMarketsPositions, value) ==
    IF allProfitLossResults = <<>> THEN value
    ELSE LET tradingPosition == Head(allProfitLossResults)
             includes == \E i \in 1..Len(fullTotalLossMarketsPositions) :
                             fullTotalLossMarketsPositions[i] = tradingPosition.market
         IN FrozenReduce(Tail(allProfitLossResults), fullTotalLossMarketsPositions,
                         IF includes THEN value
                         ELSE plus(value, BN(tradingPosition.frozenFunds)))

FrozenThrew(msg) == [status |-> "threw", totalFrozenFunds |-> <<>>, error |-> msg]

getTotalOnChainFrozenFunds(params, db, totalValidityBonds) ==
    IF Falsy(params.universe) /\ Falsy(params.account)
    THEN FrozenThrew("'getTotalOnChainFrozenFunds' requires a 'universe' or 'account' param be provided")
    ELSE LET allProfitLossResults == FrozenPositionResults(params, db)
             fullTotalLossMarketsPositions ==
                 getFullMarketPositionLoss(db, allProfitLossResults,
                                           FrozenShareBalances(params, db))
         IN IF fullTotalLossMarketsPositions.status = "threw"
            THEN FrozenThrew(fullTotalLossMarketsPositions.error)
            ELSE LET frozenFunds ==
                         dividedBy(FrozenReduce(allProfitLossResults,
                                                fullTotalLossMarketsPositions.markets,
                                                BN(0)),
                                   BN(QUINTILLION))
                 IN [status |-> "returned",
                     totalFrozenFunds |->
                         toFixed(dividedBy(plus(BN(totalValidityBonds), frozenFunds),
                                           BN(QUINTILLION))),
                     error |-> ""]

MaxFrozenLogs == 2  \* longest list of position logs in the store

\* a position log; what it freezes grows with the block, the outcome and the market
FrozenLog(account, market, outcome, blockNumber) ==
    [account |-> account, universe |-> "0xU1", market |-> market, outcome |-> outcome,
     blockNumber |-> blockNumber, logIndex |-> 0,
     frozenFunds |-> 20 * blockNumber + (IF outcome = "0x01" THEN 100 ELSE 0)
                     + (IF market = "M2" THEN 300 ELSE 0)]

FrozenLogs ==
    {FrozenLog("0xA1", k[1], k[2], b) :
         k \in {<<"M1", "0x00">>, <<"M1", "0x01">>, <<"M2", "0x01">>}, b \in {1, 2}}
    \cup {FrozenLog("0xA2", "M1", "0x00", 1)}

\* balance rows of the account: per market none, 3 shares of outcome 0 or 3 of outcome 1
FrozenBalanceRows(market) ==
    {<<>>} \cup
    {<<[universe |-> "0xU1", account |-> "0xA1", market |-> market,
        outcome |-> o, balance |-> 3]>> : o \in {"0x00", "0x01"}}

FrozenStores ==
    [ProfitLossChanged : UNION {[1..n -> FrozenLogs] : n \in 0..MaxFrozenLogs},
     MarketFinalized : LossFinalizations,
     Markets : {d \in LossMarketDocs : d["M2"].winningPayoutNumerators = <<0, 1>>},
     ShareTokenBalanceChangedRollup :
         {m1 \o m2 : m1 \in FrozenBalanceRows("M1"), m2 \in FrozenBalanceRows("M2")}]

FrozenParams ==
    {[account |-> Some("0xA1"), universe |-> Some("0xU1")],
     [account |-> Null, universe |-> Null]}

InitFrozen ==
    /\ op = "getTotalOnChainFrozenFunds.total"
    /\ callArgs \in [params : FrozenParams, db : FrozenStores,
                     totalValidityBonds : {0, 50}]
    /\ callRet = Null
    /\ IdleBucket /\ IdlePosition /\ IdleSum /\ IdleEscrow /\ IdleProfitLoss

CallGetTotalOnChainFrozenFunds ==
    /\ op = "getTotalOnChainFrozenFunds.total"
    /\ callRet = Null
    /\ callRet' = Some(getTotalOnChainFrozenFunds(callArgs.params, callArgs.db,
                                                  callArgs.totalValidityBonds))
    /\ UNCHANGED <<op, callArgs, varsBucket, varsPosition, varsSum, varsEscrow,
                 varsProfitLoss>>

NextFrozen == CallGetTotalOnChainFrozenFunds

SpecFrozen == InitFrozen /\ [][NextFrozen]_vars

\* the position logs of the account asked for
FrozenAccountLogs ==
    {d \in DocSet(callArgs.db.ProfitLossChanged) :
        d.account = Val(callArgs.params.account) /\ d.universe = Val(callArgs.params.universe)}

\* the latest log of every (market, outcome) of the account
FrozenLatestLogs ==
    {d \in FrozenAccountLogs :
        \A e \in FrozenAccountLogs :
            (e.market = d.market /\ e.outcome = d.outcome) => KeyLte(e, d)}

\* the markets getFullMarketPositionLoss flags for the account
FrozenFlagged ==
    LET r == getFullMarketPositionLoss(
                 callArgs.db, FrozenPositionResults(callArgs.params, callArgs.db),
                 FrozenShareBalances(callArgs.params, callArgs.db))
    IN {r.markets[i] : i \in 1..Len(r.markets)}

RECURSIVE FrozenSum(_)
FrozenSum(logs) ==
    IF logs = {} THEN 0
    ELSE LET d == CHOOSE x \in logs : TRUE
         IN d.frozenFunds + FrozenSum(logs \ {d})

\* C18: the total returned leaves out the frozenFunds of every latest position log
\* whose market is flagged full-loss and holds the frozenFunds of every other latest
\* (market, outcome) position log of the account exactly once.
C18_FrozenExcludesFullLoss ==
    (op = "getTotalOnChainFrozenFunds.total" /\ callRet # Null
        /\ Val(callRet).status = "returned") =>
        LET counted == {d \in FrozenLatestLogs : d.market \notin FrozenFlagged}
        IN Val(callRet).totalFrozenFunds =
               toFixed(dividedBy(plus(BN(callArgs.totalValidityBonds),
                                      dividedBy(BN(FrozenSum(counted)), BN(QUINTILLION))),
                                 BN(QUINTILLION)))

\* market M1 is finalized with a worthless balance, market M2 is not finalized: the
\* latest log of M1 is left out and the latest log of M2 is counted
C18_Witness ==
    /\ op = "getTotalOnChainFrozenFunds.total"
    /\ callRet # Null
    /\ Val(callRet).status = "returned"
    /\ FrozenFlagged = {"M1"}
    /\ \E d, e \in FrozenLatestLogs : d.market = "M1" /\ e.market = "M2"
    /\ callArgs.totalValidityBonds = 0
    /\ Val(callRet).totalFrozenFunds = <<"4", ".", "2">>

-----------------------------------------------------------------------------
(* getProfitLossSummary *)
(* The loop over [ONE_DAY, DAYS_IN_MONTH] is one step per period; each     *)
(* step is one awaited call of getProfitLoss, whose arguments, positions   *)
(* and series are kept in plArgs, plTradingPositions and plRet.            *)

SummaryPeriods == <<ONE_DAY, DAYS_IN_MONTH>>

\* const periodInterval = days * 60 * 60 * 24
SummaryPeriodInterval(days) == days * 60 * 60 * 24

\* (faulty variant) a start two periods before the end
SummaryStartTimeTwoPeriods(endTime, periodInterval) == endTime - 2 * periodInterval

\* const startTime = endTime - periodInterval
SummaryStartTime(endTime, periodInterval) ==
    endTime - periodInterval

\* const endTime = params.endTime || now.toNumber()
SummaryEndTime(params, now) ==
    IF IsNull(params.endTime) \/ Val(params.endTime) = 0 THEN now
    ELSE Val(params.endTime)

\* the params of the getProfitLoss call of one period
SummaryProfitLossParams(params, now, days) ==
    [startTime |-> Some(SummaryStartTime(SummaryEndTime(params, now),
                                         SummaryPeriodInterval(days))),
     endTime |-> Some(SummaryEndTime(params, now)),
     periodInterval |-> Some(SummaryPeriodInterval(days)),
     ignoreFinalizedMarkets |-> params.ignoreFinalizedMarkets]

\* const negativeStartProfit = { timestamp: startProfit.timestamp, realized: ..., ... }
negativeStartProfit(startProfit) ==
    [InitialSummedTrade EXCEPT
        !.timestamp = startProfit.timestamp,
        !.realized = toFixed(BigNumber(startProfit.realized)),
        !.unrealized = toFixed(BigNumber(startProfit.unrealized))]

SummaryTooManyBuckets == "PL calculation in summary returning more thant two bucket"

\* the body of the loop after the await: the destructuring, the check of rest and
\* the sum; a rejected getProfitLoss rejects the summary
SummaryOfSeries(profitLoss) ==
    IF profitLoss.status = "threw"
    THEN [status |-> "threw", position |-> Null, error |-> profitLoss.error]
    ELSE IF Len(profitLoss.series) > 2
    THEN [status |-> "threw", position |-> Null, error |-> SummaryTooManyBuckets]
    ELSE IF Len(profitLoss.series) < 2
    THEN [status |-> "threw", position |-> Null,
          error |-> "TypeError: Cannot read property 'timestamp' of undefined"]
    ELSE [status |-> "returned",
          position |-> Some(sumTradingPositions(
                                <<profitLoss.series[2],
                                  negativeStartProfit(profitLoss.series[1])>>)),
          error |-> ""]

\* the account's logs around a clock reading: a position record from before the
\* month that realized a profit, optionally changed within the last day, or one
\* opened within the month; fills within the month and within the last day; a
\* finalization within the last day
SummaryFrame(timestamp, netPosition, realizedProfit) ==
    [PLFrame(1, timestamp, netPosition) EXCEPT !.realizedProfit = realizedProfit]

SummaryStores(now) ==
    LET day == SummaryPeriodInterval(ONE_DAY)
        month == SummaryPeriodInterval(DAYS_IN_MONTH)
    IN [ProfitLossChanged :
            {<<>>,
             <<SummaryFrame(now - month - day, 2, QUINTILLION * QUINTILLION)>>,
             <<SummaryFrame(now - month - day, 2, QUINTILLION * QUINTILLION),
               SummaryFrame(now - 3600, -1, 3 * QUINTILLION * QUINTILLION)>>,
             <<SummaryFrame(now - 2 * day, 2, 0)>>},
        ParsedOrderEvent :
            {<<>>,
             <<PLFill(1, now - 7200, 3)>>,
             <<PLFill(1, now - 3 * day, 1), PLFill(1, now - 7200, 3)>>},
        MarketFinalized : {<<>>, <<PLFinalization(now - 1800)>>},
        ShareTokenBalanceChangedRollup : {ShareTokenBalances}]

\* endTime missing (the chain's clock), the clock itself, between a day and a
\* month, exactly a day, and less than a day
SummaryParams(now) ==
    [endTime : {Null, Some(now - 60), Some(4 * SummaryPeriodInterval(ONE_DAY)),
                Some(SummaryPeriodInterval(ONE_DAY)), Some(3600)},
     ignoreFinalizedMarkets : BOOLEAN]

InitSummary ==
    /\ op = "getProfitLossSummary"
    /\ \E now \in {1600000000} :
           callArgs \in [params : SummaryParams(now), db : SummaryStores(now),
                         now : {now}]
    /\ callRet = Some([status |-> "running", done |-> 0, result |-> <<>>, error |-> ""])
    /\ IdleBucket /\ IdlePosition /\ IdleSum /\ IdleEscrow /\ IdleProfitLoss

\* one iteration of for (const days of [ONE_DAY, DAYS_IN_MONTH])
SummarizePeriod ==
    /\ op = "getProfitLossSummary"
    /\ Val(callRet).status = "running"
    /\ Val(callRet).done < Len(SummaryPeriods)
    /\ LET days == SummaryPeriods[Val(callRet).done + 1]
       IN /\ plArgs' = [params |-> SummaryProfitLossParams(callArgs.params,
                                                           callArgs.now, days),
                        db |-> callArgs.db,
                        now |-> callArgs.now]
          /\ plTradingPositions' =
                 Some(PLTradingPositions(
                          PLBucketRange(plArgs'.params, plArgs'.now).buckets,
                          plArgs'.params, plArgs'.db, plArgs'.now))
          /\ plRet' = Some(getProfitLoss(plArgs'.params, plArgs'.now,
                                         Val(plTradingPositions')))
          /\ callRet' =
                 LET summed == SummaryOfSeries(Val(plRet'))
                 IN IF summed.status = "threw"
                    THEN Some([Val(callRet) EXCEPT !.status = "threw",
                                                   !.error = summed.error])
                    ELSE Some([Val(callRet) EXCEPT
                                  !.done = @ + 1,
                                  !.result = Append(@, [days |-> days,
                                                        position |-> Val(summed.position)])])
    /\ UNCHANGED <<op, callArgs, varsBucket, varsPosition, varsSum, varsEscrow>>

\* return result
ReturnSummary ==
    /\ op = "getProfitLossSummary"
    /\ Val(callRet).status = "running"
    /\ Val(callRet).done = Len(SummaryPeriods)
    /\ callRet' = Some([Val(callRet) EXCEPT !.status = "returned"])
    /\ UNCHANGED <<op, callArgs, varsBucket, varsPosition, varsSum, varsEscrow,
                 varsProfitLoss>>

NextSummary == SummarizePeriod \/ ReturnSummary

SpecSummary == InitSummary /\ [][NextSummary]_vars

\* a period has just been summarized or rejected: plArgs holds its call
SummaryCalled == op = "getProfitLossSummary" /\ ~IsNull(plArgs)

\* a series of three buckets: the period's call with half the interval
SummaryHalfIntervalSeries ==
    LET params == [plArgs.params EXCEPT !.periodInterval = Some(Val(@) \div 2)]
    IN getProfitLoss(params, plArgs.now,
                     PLTradingPositions(PLBucketRange(params, plArgs.now).buckets,
                                        params, plArgs.db, plArgs.now))

\* C26: each period is summarized from exactly two buckets: whenever endTime is
\* greater than the period length, the period's getProfitLoss call returns the
\* buckets [endTime - period, endTime] and the too-many-buckets error is not
\* raised; a series of another length is rejected with that error and adds nothing
\* to the summary.
C26_TwoBuckets ==
    SummaryCalled =>
        LET startTime == Val(plArgs.params.startTime)
            endTime == Val(plArgs.params.endTime)
            periodInterval == Val(plArgs.params.periodInterval)
            buckets == [b \in 1..Len(Val(plTradingPositions)) |->
                           Val(plTradingPositions)[b].timestamp]
        IN /\ startTime = endTime - periodInterval
           /\ endTime > periodInterval =>
                  /\ Val(plRet).status = "returned"
                  /\ buckets = <<startTime, endTime>>
                  /\ Len(Val(plRet).series) = 2
                  /\ Val(callRet).status # "threw"
                  /\ Len(Val(callRet).result) = Val(callRet).done
                  /\ SummaryOfSeries(SummaryHalfIntervalSeries).status = "threw"
                  /\ SummaryOfSeries(SummaryHalfIntervalSeries).error
                         = SummaryTooManyBuckets
           /\ (Val(plRet).status = "returned" /\ Len(Val(plRet).series) # 2) =>
                  /\ Val(callRet).status = "threw"
                  /\ Val(callRet).error = SummaryTooManyBuckets
           /\ Val(callRet).error # SummaryTooManyBuckets

\* both periods summarized from two buckets each, with a valued position
C26_Witness ==
    /\ op = "getProfitLossSummary"
    /\ Val(callRet).status = "returned"
    /\ Len(Val(callRet).result) = 2
    /\ Len(Val(plRet).series) = 2
    /\ Val(plArgs.params.periodInterval) = 2592000
    /\ ~isZero(BigNumber(Val(plRet).series[2].realized))

\* C29: for each period the summary's realized is the end bucket's realized minus
\* the start bucket's, and its unrealized the end bucket's unrealized minus the
\* start bucket's.
C29_SummaryIsDifference ==
    (SummaryCalled /\ Val(plRet).status = "returned" /\ Val(callRet).status # "threw") =>
        LET startProfit == Val(plRet).series[1]
            endProfit == Val(plRet).series[2]
            summary == Val(callRet).result[Len(Val(callRet).result)].position
        IN /\ BigNumber(summary.realized) =
                  minus(BigNumber(endProfit.realized), BigNumber(startProfit.realized))
           /\ BigNumber(summary.unrealized) =
                  minus(BigNumber(endProfit.unrealized),
                        BigNumber(startProfit.unrealized))

-----------------------------------------------------------------------------
(* getAccountTimeRangedStats *)

\* compareArrays: 1 when every item of lhs is at the same index of rhs, else 0
compareArrays(lhs, rhs) ==
    IF \A index \in 1..Len(lhs) : index <= Len(rhs) /\ lhs[index] = rhs[index]
    THEN 1 ELSE 0

\* .between(lower, upper, true, true) on the timestamp strings
StatsBetween(timestamp, lower, upper) ==
    StringLte(lower, timestamp) /\ StringLte(timestamp, upper)

\* _.sum of a list of numbers
RECURSIVE StatsSum(_)
StatsSum(ns) == IF ns = <<>> THEN 0 ELSE Head(ns) + StatsSum(Tail(ns))

StatsThrew(msg) == [status |-> "threw", stats |-> Null, error |-> msg]

\* the queries and counts behind the guards, for the effective start and end
StatsCounts(params, db, startTime, endTime) ==
    LET formattedStartTime == HexTimestamp(startTime)
        formattedEndTime == HexTimestamp(endTime)
        InRange(log) == StatsBetween(log.timestamp, formattedStartTime, formattedEndTime)
        Created(log) == /\ log.universe = params.universe /\ InRange(log)
                        /\ log.marketCreator = params.account
        Redeemed(log) == /\ InRange(log)
                         /\ log.reporter = params.account
                         /\ log.universe = params.universe
        Disputed(log) == /\ log.reporter = params.account
                         /\ log.universe = params.universe
                         /\ StringLte(formattedStartTime, log.timestamp)
                         /\ StringLte(log.timestamp, formattedEndTime)
        Filled(log) == /\ log.universe = params.universe /\ InRange(log)
                       /\ (log.orderCreator = params.account
                           \/ log.orderFiller = params.account)
        Held(log) == /\ log.universe = params.universe
                     /\ log.account = params.account /\ InRange(log)
                     /\ log.netPosition # 0
        marketsCreatedLog == SelectSeq(db.MarketCreated, Created)
        initialReporterReedeemedLogs == SelectSeq(db.InitialReporterRedeemed, Redeemed)
        disputeCrowdsourcerReedeemedLogs ==
            SelectSeq(db.DisputeCrowdsourcerRedeemed, Disputed)
        successfulDisputes ==
            StatsSum([i \in 1..Len(disputeCrowdsourcerReedeemedLogs) |->
                         LET log == disputeCrowdsourcerReedeemedLogs[i]
                             market == db.Markets[log.market]
                         IN IF market.finalized
                            THEN compareArrays(market.winningPayoutNumerators,
                                               log.payoutNumerators)
                            ELSE 0])
        orderFilledLogs == SelectSeq(db.ParsedOrderEvent, Filled)
        profitLossChangedLogs == SelectSeq(db.ProfitLossChanged, Held)
        \* _.uniqWith(logs, comparator).length: one log per compared key
        positions ==
            Cardinality({<<profitLossChangedLogs[i].market,
                           profitLossChangedLogs[i].outcome>> :
                             i \in 1..Len(profitLossChangedLogs)})
        numberOfTrades ==
            Cardinality({orderFilledLogs[i].tradeGroupId : i \in 1..Len(orderFilledLogs)})
        marketsTraded ==
            Cardinality({orderFilledLogs[i].market : i \in 1..Len(orderFilledLogs)})
    IN [positions |-> positions,
        numberOfTrades |-> numberOfTrades,
        marketsCreated |-> Len(marketsCreatedLog),
        marketsTraded |-> marketsTraded,
        successfulDisputes |-> successfulDisputes,
        redeemedPositions |-> Len(initialReporterReedeemedLogs) + successfulDisputes]

\* params.startTime > params.endTime on the parameters as passed: a comparison
\* with undefined is false
StatsRangeRejected(params) ==
    /\ ~IsNull(params.startTime)
    /\ ~IsNull(params.endTime)
    /\ Val(params.startTime) > Val(params.endTime)

getAccountTimeRangedStats(params, db, knownUniverses, now) ==
    IF params.universe \notin knownUniverses
    THEN StatsThrew("Unknown universe: " \o params.universe)
    ELSE LET startTime == IF ~IsNull(params.startTime) /\ Val(params.startTime) # 0
                          THEN Val(params.startTime) ELSE 0
             endTime == IF ~IsNull(params.endTime) /\ Val(params.endTime) # 0
                        THEN Val(params.endTime) ELSE now
         IN IF StatsRangeRejected(params)
            THEN StatsThrew("startTime must be less than or equal to endTime")
            ELSE [status |-> "returned",
                  stats |-> Some(StatsCounts(params, db, startTime, endTime)),
                  error |-> ""]

\* the logs of universe U1: markets created by the account at instants 1 and 5, a
\* redeemed initial report, two redeemed disputes (one on the winning payout), fills
\* of two trades in one market and position changes of two outcomes
StatsMarkets ==
    [m \in {"M1", "M2"} |->
        [finalized |-> m = "M1", winningPayoutNumerators |-> <<0, 5, 0>>]]

StatsStores ==
    [MarketCreated :
         {<<>>,
          <<[universe |-> "U1", timestamp |-> HexTimestamp(1), marketCreator |-> "A"],
            [universe |-> "U1", timestamp |-> HexTimestamp(5), marketCreator |-> "A"],
            [universe |-> "U1", timestamp |-> HexTimestamp(5), marketCreator |-> "B"]>>},
     InitialReporterRedeemed :
         {<<[universe |-> "U1", timestamp |-> HexTimestamp(3), reporter |-> "A"]>>},
     DisputeCrowdsourcerRedeemed :
         {<<>>,
          <<[universe |-> "U1", timestamp |-> HexTimestamp(3), reporter |-> "A",
             market |-> "M1", payoutNumerators |-> <<0, 5, 0>>],
            [universe |-> "U1", timestamp |-> HexTimestamp(4), reporter |-> "A",
             market |-> "M1", payoutNumerators |-> <<5, 0, 0>>],
            [universe |-> "U1", timestamp |-> HexTimestamp(4), reporter |-> "A",
             market |-> "M2", payoutNumerators |-> <<0, 5, 0>>]>>},
     Markets : {StatsMarkets},
     ParsedOrderEvent :
         {<<[universe |-> "U1", timestamp |-> HexTimestamp(2), orderCreator |-> "A",
             orderFiller |-> "B", tradeGroupId |-> "g1", market |-> "M1"],
            [universe |-> "U1", timestamp |-> HexTimestamp(2), orderCreator |-> "B",
             orderFiller |-> "A", tradeGroupId |-> "g1", market |-> "M1"],
            [universe |-> "U1", timestamp |-> HexTimestamp(6), orderCreator |-> "B",
             orderFiller |-> "A", tradeGroupId |-> "g2", market |-> "M1"]>>},
     ProfitLossChanged :
         {<<>>,
          <<[universe |-> "U1", account |-> "A", timestamp |-> HexTimestamp(2),
             market |-> "M1", outcome |-> 1, netPosition |-> 2],
            [universe |-> "U1", account |-> "A", timestamp |-> HexTimestamp(6),
             market |-> "M1", outcome |-> 1, netPosition |-> 0],
            [universe |-> "U1", account |-> "A", timestamp |-> HexTimestamp(6),
             market |-> "M1", outcome |-> 2, netPosition |-> -1]>>}]

StatsParams ==
    [universe : {"U1", "U9"},
     account : {"A"},
     startTime : {Null, Some(0), Some(2), Some(5), Some(9)},
     endTime : {Null, Some(0), Some(4), Some(7)}]

InitStats ==
    /\ op = "getAccountTimeRangedStats"
    /\ callArgs \in [params : StatsParams, db : StatsStores,
                     knownUniverses : {{"U1"}}, now : {6}]
    /\ callRet = Null
    /\ IdleBucket /\ IdlePosition /\ IdleSum /\ IdleEscrow /\ IdleProfitLoss

CallGetAccountTimeRangedStats ==
    /\ op = "getAccountTimeRangedStats"
    /\ callRet = Null
    /\ callRet' = Some(getAccountTimeRangedStats(callArgs.params, callArgs.db,
                                                 callArgs.knownUniverses, callArgs.now))
    /\ UNCHANGED <<op, callArgs, varsBucket, varsPosition, varsSum, varsEscrow,
                 varsProfitLoss>>

NextStats == CallGetAccountTimeRangedStats

SpecStats == InitStats /\ [][NextStats]_vars

\* the start and end the counts are taken over: a missing startTime is 0, a
\* missing endTime is the chain's timestamp
StatsEffectiveStart ==
    IF IsNull(callArgs.params.startTime) THEN 0 ELSE Val(callArgs.params.startTime)

StatsEffectiveEnd ==
    IF IsNull(callArgs.params.endTime) THEN callArgs.now
    ELSE Val(callArgs.params.endTime)

\* C28: the call fails with the invalid-time-range error and returns no counts
\* whenever the effective startTime is greater than the effective endTime; an
\* explicit startTime later than a defaulted endTime is rejected.
C28_InvalidTimeRange ==
    (/\ op = "getAccountTimeRangedStats" /\ ~IsNull(callRet)
     /\ callArgs.params.universe \in callArgs.knownUniverses
     /\ StatsEffectiveStart > StatsEffectiveEnd) =>
        /\ Val(callRet).status = "threw"
        /\ Val(callRet).error = "startTime must be less than or equal to endTime"
        /\ IsNull(Val(callRet).stats)

-----------------------------------------------------------------------------
(* AppStatusReducer *)
(* The state is keyed by the constants of modules/app/store/constants; the *)
(* model takes every constant as its own key and every action type as its *)
(* own string.  callArgs holds the reducer's state, the number of actions  *)
(* dispatched and window.appStatus; callRet the last dispatch.             *)

MaxDispatches == 3    \* actions dispatched in one run

MenuKeys ==
    {"IS_ODDS_MENU_OPEN", "IS_HELP_MENU_OPEN", "IS_CONNECTION_TRAY_OPEN",
     "IS_ALERTS_MENU_OPEN"}

\* the keys written by the cases that assign one property of the action
ScalarKeys ==
    {"THEME", "ODDS", "IS_MOBILE", "Ox_ENABLED", "GSN_ENABLED", "ETH_TO_DAI_RATE",
     "REP_TO_DAI_RATE", "Ox_STATUS", "WALLET_STATUS", "RESTORED_ACCOUNT", "IS_LOGGED",
     "IS_CONNECTED", "IS_RECONNECTION_PAUSED", "CAN_HOTLOAD", "ENV",
     "CURRENT_BASE_PATH", "MOBILE_MENU_STATE"}

\* the keys written by the cases that spread the action's object over the old one
ObjectKeys == {"GAS_PRICE_INFO", "BLOCKCHAIN"}

\* a state with the given menu flags and every other key at its first value
AppStatusWith(flags) ==
    [k \in MenuKeys \cup ScalarKeys \cup ObjectKeys |->
        IF k \in MenuKeys THEN flags[k]
        ELSE IF k \in ScalarKeys THEN 0
        ELSE [average |-> 0, fast |-> 0]]

\* the case that assigns to `key` the action's property `prop`
ScalarCases ==
    [SET_THEME |-> "THEME", SET_ODDS |-> "ODDS", SET_IS_MOBILE |-> "IS_MOBILE",
     SET_Ox_ENABLED |-> "Ox_ENABLED", SET_GSN_ENABLED |-> "GSN_ENABLED",
     SET_ETH_TO_DAI_RATE |-> "ETH_TO_DAI_RATE",
     SET_REP_TO_DAI_RATE |-> "REP_TO_DAI_RATE", SET_Ox_STATUS |-> "Ox_STATUS",
     SET_WALLET_STATUS |-> "WALLET_STATUS",
     SET_RESTORED_ACCOUNT |-> "RESTORED_ACCOUNT", SET_IS_LOGGED |-> "IS_LOGGED",
     SET_IS_CONNECTED |-> "IS_CONNECTED",
     SET_IS_RECONNECTION_PAUSED |-> "IS_RECONNECTION_PAUSED",
     SET_CAN_HOTLOAD |-> "CAN_HOTLOAD", SET_ENV |-> "ENV",
     SET_CURRENT_BASE_PATH |-> "CURRENT_BASE_PATH",
     SET_MOBILE_MENU_STATE |-> "MOBILE_MENU_STATE"]

ObjectCases ==
    [UPDATE_GAS_PRICE_INFO |-> "GAS_PRICE_INFO", UPDATE_BLOCKCHAIN |-> "BLOCKCHAIN"]

\* case SET_IS_ODDS_MENU_OPEN
SetIsOddsMenuOpen(updatedState, action) ==
    [updatedState EXCEPT
        !["IS_ODDS_MENU_OPEN"] = action.isOpen,
        !["IS_HELP_MENU_OPEN"] = FALSE,
        !["IS_CONNECTION_TRAY_OPEN"] = FALSE,
        !["IS_ALERTS_MENU_OPEN"] = FALSE]

\* case SET_IS_HELP_MENU_OPEN
SetIsHelpMenuOpen(updatedState, action) ==
    [updatedState EXCEPT
        !["IS_ODDS_MENU_OPEN"] = FALSE,
        !["IS_HELP_MENU_OPEN"] = action.isOpen,
        !["IS_CONNECTION_TRAY_OPEN"] = FALSE,
        !["IS_ALERTS_MENU_OPEN"] = FALSE]

\* case SET_IS_CONNECTION_TRAY_OPEN
SetIsConnectionTrayOpen(updatedState, action) ==
    [updatedState EXCEPT
        !["IS_ODDS_MENU_OPEN"] = FALSE,
        !["IS_HELP_MENU_OPEN"] = FALSE,
        !["IS_CONNECTION_TRAY_OPEN"] = action.isOpen,
        !["IS_ALERTS_MENU_OPEN"] = FALSE]

\* (faulty variant) the alerts case writing its own flag only
SetIsAlertsMenuOpenOnly(updatedState, action) ==
    [updatedState EXCEPT !["IS_ALERTS_MENU_OPEN"] = action.isOpen]

\* case SET_IS_ALERTS_MENU_OPEN
SetIsAlertsMenuOpen(updatedState, action) ==
    [updatedState EXCEPT
        !["IS_ODDS_MENU_OPEN"] = FALSE,
        !["IS_HELP_MENU_OPEN"] = FALSE,
        !["IS_CONNECTION_TRAY_OPEN"] = FALSE,
        !["IS_ALERTS_MENU_OPEN"] = action.isOpen]

\* case CLOSE_APP_MENUS
CloseAppMenus(updatedState) ==
    [updatedState EXCEPT
        !["IS_ODDS_MENU_OPEN"] = FALSE,
        !["IS_HELP_MENU_OPEN"] = FALSE,
        !["IS_CONNECTION_TRAY_OPEN"] = FALSE,
        !["IS_ALERTS_MENU_OPEN"] = FALSE]

\* { ...old, ...new }
SpreadOver(old, new) ==
    [k \in DOMAIN old \cup DOMAIN new |-> IF k \in DOMAIN new THEN new[k] ELSE old[k]]

\* the switch on action.type; the default case throws
AppStatusReducer(state, action) ==
    LET updatedState == state
        Returned(newState) == [status |-> "returned", state |-> Some(newState), error |-> ""]
    IN CASE action.type = "SET_IS_ODDS_MENU_OPEN" ->
                Returned(SetIsOddsMenuOpen(updatedState, action))
         [] action.type = "SET_IS_HELP_MENU_OPEN" ->
                Returned(SetIsHelpMenuOpen(updatedState, action))
         [] action.type = "SET_IS_CONNECTION_TRAY_OPEN" ->
                Returned(SetIsConnectionTrayOpen(updatedState, action))
         [] action.type = "SET_IS_ALERTS_MENU_OPEN" ->
                Returned(SetIsAlertsMenuOpen(updatedState, action))
         [] action.type = "CLOSE_APP_MENUS" ->
                Returned(CloseAppMenus(updatedState))
         [] action.type \in DOMAIN ScalarCases ->
                Returned([updatedState EXCEPT ![ScalarCases[action.type]] = action.value])
         [] action.type \in DOMAIN ObjectCases ->
                Returned([updatedState EXCEPT
                             ![ObjectCases[action.type]] = SpreadOver(@, action.value)])
         [] OTHER ->
                [status |-> "threw", state |-> Null,
                 error |-> "Error: " \o action.type
                               \o " not caught by App Status reducer."]

\* the actions the dispatchers of useAppStatus build, and one of a type the
\* reducer does not know
AppActions ==
    [type : {"SET_IS_ODDS_MENU_OPEN", "SET_IS_HELP_MENU_OPEN",
             "SET_IS_CONNECTION_TRAY_OPEN", "SET_IS_ALERTS_MENU_OPEN"},
     isOpen : BOOLEAN]
    \cup [type : {"CLOSE_APP_MENUS"}]
    \cup [type : DOMAIN ScalarCases, value : {1}]
    \cup [type : DOMAIN ObjectCases, value : {[fast |-> 1]}]
    \cup [type : {"SET_UNKNOWN"}]

\* the states useReducer may start from: at most one menu open
InitAppStatus ==
    /\ op = "AppStatusReducer"
    /\ \E flags \in [MenuKeys -> BOOLEAN] :
           /\ Cardinality({k \in MenuKeys : flags[k]}) <= 1
           /\ callArgs = [state |-> AppStatusWith(flags), dispatched |-> 0,
                          windowAppStatus |-> Null]
    /\ callRet = Null
    /\ IdleBucket /\ IdlePosition /\ IdleSum /\ IdleEscrow /\ IdleProfitLoss

\* dispatch(action): the reducer runs on the current state; a returned state
\* replaces it and is stored in window.appStatus, a throw leaves both
Dispatch ==
    /\ op = "AppStatusReducer"
    /\ callArgs.dispatched < MaxDispatches
    /\ \E action \in AppActions :
           /\ callRet' = Some([action |-> action, prior |-> callArgs.state,
                               result |-> AppStatusReducer(callArgs.state, action)])
           /\ callArgs' =
                  IF Val(callRet').result.status = "returned"
                  THEN [state |-> Val(Val(callRet').result.state),
                        dispatched |-> callArgs.dispatched + 1,
                        windowAppStatus |-> Val(callRet').result.state]
                  ELSE [callArgs EXCEPT !.dispatched = @ + 1]
    /\ UNCHANGED <<op, varsBucket, varsPosition, varsSum, varsEscrow, varsProfitLoss>>

NextAppStatus == Dispatch

SpecAppStatus == InitAppStatus /\ [][NextAppStatus]_vars

OpenMenus(state) == {k \in MenuKeys : state[k]}

\* the flags a SET_IS_<menu>_OPEN action leaves: its own menu as asked, the rest closed
OnlyMenu(key, isOpen) == [k \in MenuKeys |-> k = key /\ isOpen]

MenuFlags(state) == [k \in MenuKeys |-> state[k]]

MenuOfAction ==
    [SET_IS_ODDS_MENU_OPEN |-> "IS_ODDS_MENU_OPEN",
     SET_IS_HELP_MENU_OPEN |-> "IS_HELP_MENU_OPEN",
     SET_IS_CONNECTION_TRAY_OPEN |-> "IS_CONNECTION_TRAY_OPEN",
     SET_IS_ALERTS_MENU_OPEN |-> "IS_ALERTS_MENU_OPEN"]

\* C30: started with at most one of the four menus open, the state has at most one
\* open after any sequence of actions: a SET_IS_<menu>_OPEN action sets its own
\* flag to isOpen and the other three to false, CLOSE_APP_MENUS sets the four to
\* false, every other handled action leaves the four as they were, and an action
\* of unknown type throws and returns no state.
C30_AtMostOneMenuOpen ==
    op = "AppStatusReducer" =>
        /\ Cardinality(OpenMenus(callArgs.state)) <= 1
        /\ ~IsNull(callRet) =>
               LET action == Val(callRet).action
                   prior == Val(callRet).prior
                   result == Val(callRet).result
               IN /\ action.type \in DOMAIN MenuOfAction =>
                         /\ result.status = "returned"
                         /\ MenuFlags(callArgs.state) =
                                OnlyMenu(MenuOfAction[action.type], action.isOpen)
                  /\ action.type = "CLOSE_APP_MENUS" =>
                         /\ result.status = "returned"
                         /\ OpenMenus(callArgs.state) = {}
                  /\ action.type \in DOMAIN ScalarCases \cup DOMAIN ObjectCases =>
                         /\ result.status = "returned"
                         /\ MenuFlags(callArgs.state) = MenuFlags(prior)
                  /\ action.type = "SET_UNKNOWN" =>
                         /\ result.status = "threw"
                         /\ IsNull(result.state)
                         /\ callArgs.state = prior
                  /\ result.status = "returned" =>
                         /\ callArgs.state = Val(result.state)
                         /\ callArgs.windowAppStatus = result.state

\* the alerts menu is opened while the help menu is open
C30_Witness ==
    /\ op = "AppStatusReducer"
    /\ ~IsNull(callRet)
    /\ Val(callRet).action = [type |-> "SET_IS_ALERTS_MENU_OPEN", isOpen |-> TRUE]
    /\ Val(callRet).prior["IS_HELP_MENU_OPEN"]
    /\ OpenMenus(callArgs.state) = {"IS_ALERTS_MENU_OPEN"}
    /\ callArgs.dispatched = MaxDispatches

-----------------------------------------------------------------------------

Init ==
    \/ InitBucket \/ InitPosition \/ InitSum \/ InitEscrow \/ InitProfitLoss
    \/ InitFullLoss \/ InitLatest \/ InitGuard
    \/ InitGroup \/ InitLastDoc \/ InitFrozen \/ InitSummary
    \/ InitStats \/ InitAppStatus

Next ==
    \/ NextBucket \/ NextPosition \/ NextSum \/ NextEscrow \/ NextProfitLoss
    \/ NextFullLoss \/ NextLatest \/ NextGuard
    \/ NextGroup \/ NextLastDoc \/ NextFrozen \/ NextSummary
    \/ NextStats \/ NextAppStatus

Spec == Init /\ [][Next]_vars

=============================================================================
